---- MODULE Spec2Model ----
(***************************************************************************)
(* Relay of form submissions to Discord webhooks: the answer-to-embed      *)
(* transformation and the mention resolution of sendDiscordMessage, the    *)
(* normalization of answers by parseYandexFormAnswers and the way the      *)
(* webhook handler takes the answers out of a request body, in the two     *)
(* variants of the server kept in the repository (src/server.js and        *)
(* src/unnamed/part_000).                                                  *)
(*                                                                         *)
(* Spec relays submissions of normalized answers under the configurations  *)
(* an administrator can store; ParseSpec applies parseYandexFormAnswers to *)
(* request values and to the JSON text of its own result; HookSpec runs    *)
(* the handler on the three envelopes of a request.                        *)
(*                                                                         *)
(* A JavaScript string is a sequence of UTF-16 code units; a code unit is  *)
(* written as a one-element string ("a", "1", " ") and a non-ASCII unit by *)
(* its code ("u0412"), so that lengths are the lengths JavaScript sees.    *)
(***************************************************************************)
EXTENDS Integers, Sequences, FiniteSets, TLC

VARIABLES version, formConfig, formTitle, answers, pc, posted,
          argument, result, reparsed, step,
          requestBody, handed, hook,
          colorColumn, embedColor,
          forms, logs,
          request, locals, stage, outbox, responses,
          session, backups, reply, targets, broadcast, handled

\* the state of the relay of a submission
sendVars == <<formConfig, formTitle, answers, pc, posted>>

\* the state of a call of parseYandexFormAnswers
parseVars == <<argument, result, reparsed, step>>

\* the state of a request to POST /webhook/yandex-form
hookVars == <<requestBody, handed, hook>>

\* the color column of a form and the color of the embed built from it
colorVars == <<colorColumn, embedColor>>

\* the tables of the database
dbVars == <<forms, logs>>

\* the requests to POST /webhook/yandex-form in progress
relayVars == <<request, locals, stage, outbox, responses>>

\* the session of the administrator, the backup files, the status of the last
\* response to the administrator or to a submitter, the URLs the last request posted
\* to, the maintenance broadcast of the last request, and the count of the requests
\* handled
adminVars == <<session, backups, reply, targets, broadcast, handled>>

\* the state of the service around the relay of the answers
serviceVars == <<colorVars, dbVars, relayVars, adminVars>>

vars == <<version, sendVars, parseVars, hookVars, serviceVars>>

-----------------------------------------------------------------------------
(* Bounds of the model *)

\* number of filler answers appended to a submission to make it long
MaxPad == 19
\* length of the over-long answer texts
LongLen == 1030
-----------------------------------------------------------------------------
(* Program constants *)

MAX_QUESTIONS == 20
\* if (displayText.length > 1024)
FieldValueLimit == 1024
\* displayText.substring(0, 1020) + '...'
FieldValueCut == 1020
\* filter(id => id.length >= 17), if (discordId.length >= 17)
MinIdLength == 17

-----------------------------------------------------------------------------
(* JavaScript string primitives *)

Digit == {"0", "1", "2", "3", "4", "5", "6", "7", "8", "9"}

\* what String.prototype.trim removes (the ASCII part of WhiteSpace)
WhiteSpace == {" ", "\t", "\n", "\r"}

SetMin(S) == CHOOSE x \in S : \A y \in S : x <= y

Rep(c, n) == [i \in 1..n |-> c]

\* s.replace(/[^0-9]/g, '')
StripNonDigits(s) == SelectSeq(s, LAMBDA c : c \in Digit)

\* s.trim()
Trim(s) ==
    IF \A i \in 1..Len(s) : s[i] \in WhiteSpace THEN <<>>
    ELSE LET first == CHOOSE i \in 1..Len(s) :
                          s[i] \notin WhiteSpace /\ \A j \in 1..(i - 1) : s[j] \in WhiteSpace
             last == CHOOSE i \in 1..Len(s) :
                         s[i] \notin WhiteSpace /\ \A j \in (i + 1)..Len(s) : s[j] \in WhiteSpace
         IN  SubSeq(s, first, last)

\* s.substring(a, b) for 0 <= a <= b
Substring(s, a, b) ==
    SubSeq(s, (IF a > Len(s) THEN Len(s) ELSE a) + 1, IF b > Len(s) THEN Len(s) ELSE b)

\* s.split(',') : always at least one piece
RECURSIVE Split(_, _)
Split(s, sep) ==
    LET at == {i \in 1..Len(s) : s[i] = sep}
    IN  IF at = {} THEN <<s>>
        ELSE LET p == SetMin(at)
             IN  <<SubSeq(s, 1, p - 1)>> \o Split(SubSeq(s, p + 1, Len(s)), sep)

\* parts.join(sep)
RECURSIVE Join(_, _)
Join(parts, sep) ==
    IF parts = <<>> THEN <<>>
    ELSE IF Len(parts) = 1 THEN parts[1]
    ELSE parts[1] \o sep \o Join(Tail(parts), sep)

\* [...new Set(list)] : first occurrences, in order
Unique(list) ==
    LET first == {i \in 1..Len(list) : \A j \in 1..(i - 1) : list[j] # list[i]}
        idx == [i \in 1..Len(list) |-> i]
        kept == SelectSeq(idx, LAMBDA i : i \in first)
    IN  [k \in 1..Len(kept) |-> list[kept[k]]]

DigitChar(d) ==
    CASE d = 0 -> "0" [] d = 1 -> "1" [] d = 2 -> "2" [] d = 3 -> "3" [] d = 4 -> "4"
      [] d = 5 -> "5" [] d = 6 -> "6" [] d = 7 -> "7" [] d = 8 -> "8" [] d = 9 -> "9"

\* '' + n for a non-negative integer n
RECURSIVE NumToStr(_)
NumToStr(n) ==
    IF n < 10 THEN <<DigitChar(n)>> ELSE NumToStr(n \div 10) \o <<DigitChar(n % 10)>>

DigitVal(c) ==
    CASE c = "0" -> 0 [] c = "1" -> 1 [] c = "2" -> 2 [] c = "3" -> 3 [] c = "4" -> 4
      [] c = "5" -> 5 [] c = "6" -> 6 [] c = "7" -> 7 [] c = "8" -> 8 [] c = "9" -> 9

RECURSIVE StrToNum(_)
StrToNum(s) ==
    IF s = <<>> THEN 0 ELSE 10 * StrToNum(SubSeq(s, 1, Len(s) - 1)) + DigitVal(s[Len(s)])

-----------------------------------------------------------------------------
(* JavaScript values stored in the JSON columns of a form *)

\* a number and a string of a parsed JSON array
JNum(n) == [t |-> "num", v |-> n]

JStr(s) == [t |-> "str", v |-> s]

\* answers[key] : the array index a property key names, -1 when it names none
\* (a number indexes directly, a string only in its canonical decimal form)
ArrayIndex(key) ==
    IF key.t = "num" THEN (IF key.v >= 0 THEN key.v ELSE -1)
    ELSE IF key.v # <<>> /\ (\A i \in 1..Len(key.v) : key.v[i] \in Digit)
            /\ (Len(key.v) = 1 \/ key.v[1] # "0")
         THEN StrToNum(key.v)
         ELSE -1

\* answers[key] && answers[key].text
HasText(ans, key) ==
    LET i == ArrayIndex(key)
    IN  i >= 0 /\ i < Len(ans) /\ ans[i + 1].text # <<>>

\* list.includes(index) for a number index (SameValueZero: no coercion)
Includes(list, index) ==
    \E k \in 1..Len(list) : list[k].t = "num" /\ list[k].v = index

\* list.indexOf(index) for a number index, -1 when absent
IndexOf(list, index) ==
    LET at == {k \in 1..Len(list) : list[k].t = "num" /\ list[k].v = index}
    IN  IF at = {} THEN -1 ELSE SetMin(at) - 1

\* a TEXT column: '' , the JSON text of an array (given by the array it encodes),
\* the JSON text of a value that is not an array, or a text that is not JSON
EmptyText == [kind |-> "empty", doc |-> <<>>]

JsonText(doc) == [kind |-> "json", doc |-> doc]

JsonValue(doc) == [kind |-> "value", doc |-> doc]

NotJson == [kind |-> "garbage", doc |-> <<>>]

\* try { x = JSON.parse(column || fallback) } catch (e) { } with x preset to dflt
ParseColumn(column, fallback, dflt) ==
    CASE column.kind = "empty" -> fallback
      [] column.kind = "json" -> column.doc
      [] column.kind = "value" -> column.doc
      [] OTHER -> dflt

\* whether what the column parses to is an array (the fallbacks and the presets are)
IsArray(column) == column.kind # "value"

-----------------------------------------------------------------------------
(* Literals of the source *)

\* 'Вопрос '
QuestionPrefix == <<"u0412", "u043E", "u043F", "u0440", "u043E", "u0441", " ">>

\* '📝 Примечание'
NoteName ==
    <<"uD83D", "uDCDD", " ", "u041F", "u0440", "u0438", "u043C", "u0435", "u0447",
      "u0430", "u043D", "u0438", "u0435">>

\* 'Показаны первые '
NoteShown ==
    <<"u041F", "u043E", "u043A", "u0430", "u0437", "u0430", "u043D", "u044B", " ",
      "u043F", "u0435", "u0440", "u0432", "u044B", "u0435", " ">>

\* ' из '
NoteOf == <<" ", "u0438", "u0437", " ">>

\* ' вопросов.'
NoteQuestions ==
    <<" ", "u0432", "u043E", "u043F", "u0440", "u043E", "u0441", "u043E", "u0432", ".">>

\* ' Остальные вопросы не были включены из-за ограничений Discord.'
NoteRest ==
    <<" ", "u041E", "u0441", "u0442", "u0430", "u043B", "u044C", "u043D", "u044B",
      "u0435", " ", "u0432", "u043E", "u043F", "u0440", "u043E", "u0441", "u044B", " ",
      "u043D", "u0435", " ", "u0431", "u044B", "u043B", "u0438", " ", "u0432", "u043A",
      "u043B", "u044E", "u0447", "u0435", "u043D", "u044B", " ", "u0438", "u0437", "-",
      "u0437", "u0430", " ", "u043E", "u0433", "u0440", "u0430", "u043D", "u0438",
      "u0447", "u0435", "u043D", "u0438", "u0439", " ", "D", "i", "s", "c", "o", "r",
      "d", ".">>

\* '📝 Информация'
InfoName ==
    <<"uD83D", "uDCDD", " ", "u0418", "u043D", "u0444", "u043E", "u0440", "u043C",
      "u0430", "u0446", "u0438", "u044F">>

\* 'Нет данных для отображения'
InfoValue ==
    <<"u041D", "u0435", "u0442", " ", "u0434", "u0430", "u043D", "u043D", "u044B",
      "u0445", " ", "u0434", "u043B", "u044F", " ", "u043E", "u0442", "u043E", "u0431",
      "u0440", "u0430", "u0436", "u0435", "u043D", "u0438", "u044F">>

\* ' 👆 Упоминание'
MentionMark ==
    <<" ", "uD83D", "uDC46", " ", "u0423", "u043F", "u043E", "u043C", "u0438", "u043D",
      "u0430", "u043D", "u0438", "u0435">>

\* '📋 '
TitlePrefix == <<"uD83D", "uDCCB", " ">>

\* 'GTA5RP LAMESA'
DefaultFooter == <<"G", "T", "A", "5", "R", "P", " ", "L", "A", "M", "E", "S", "A">>

\* '#5865f2'
DefaultColor == <<"#", "5", "8", "6", "5", "f", "2">>

\* the JavaScript null
JNull == [t |-> "null", v |-> <<>>]

-----------------------------------------------------------------------------
(* Mention resolution, common to both variants *)

\* let discordIdFields = [0]; try { ... JSON.parse(formConfig.discord_id_fields || '[0]') }
discordIdFields(fc) == ParseColumn(fc.discord_id_fields, <<JNum(0)>>, <<JNum(0)>>)

\* let conditionalMentions = []; try { ... JSON.parse(formConfig.conditional_mentions || '[]') }
conditionalMentions(fc) == ParseColumn(fc.conditional_mentions, <<>>, <<>>)

\* let questionTitles = []; try { ... JSON.parse(formConfig.question_titles || '[]') }
questionTitles(fc) == ParseColumn(fc.question_titles, <<>>, <<>>)

\* the check with > in place of >=
IsDiscordId_Strict(digits) == Len(digits) > MinIdLength

\* if (discordId.length >= 17)
IsDiscordId(digits) == Len(digits) >= MinIdLength

\* the forEach over discordIdFields that fills discordIds
discordIds(fields, ans) ==
    LET hit == SelectSeq(fields,
                   LAMBDA key : /\ HasText(ans, key)
                                /\ IsDiscordId(StripNonDigits(ans[ArrayIndex(key) + 1].text)))
    IN  [k \in 1..Len(hit) |-> StripNonDigits(ans[ArrayIndex(hit[k]) + 1].text)]

\* discordIds.map(id => '<@' + id + '>').join(' ')
userMentions(ids) == Join([k \in 1..Len(ids) |-> <<"<", "@">> \o ids[k] \o <<">">>], <<" ">>)

\* mentions.split(',').map(id => id.trim()).filter(id => id.length >= 17)
SplitRoleIds(text) ==
    LET pieces == Split(text, ",")
        trimmed == [k \in 1..Len(pieces) |-> Trim(pieces[k])]
    IN  SelectSeq(trimmed, LAMBDA id : Len(id) >= MinIdLength)

\* if (formConfig.mentions) { ... }
staticRoles(fc) == IF fc.mentions = <<>> THEN <<>> ELSE SplitRoleIds(fc.mentions)

\* the comparison without the trim of the answer text
ConditionHolds_Untrimmed(condition, ans) ==
    /\ condition.question_index >= 0
    /\ condition.question_index < Len(ans)
    /\ ans[condition.question_index + 1].text # <<>>
    /\ ans[condition.question_index + 1].text = condition.answer_value

\* answers[question_index] && answers[question_index].text &&
\* answers[question_index].text.trim() === answer_value
ConditionHolds(condition, ans) ==
    /\ condition.question_index >= 0
    /\ condition.question_index < Len(ans)
    /\ ans[condition.question_index + 1].text # <<>>
    /\ Trim(ans[condition.question_index + 1].text) = condition.answer_value

\* the TypeError sendDiscordMessage throws on a parsed column that is not an array:
\* discordIdFields.forEach and conditionalMentions.forEach are not functions, and
\* questionTitles[index] of null has no properties (it is read for an answer with text)
Raises(fc, ans) ==
    \/ ~IsArray(fc.discord_id_fields)
    \/ ~IsArray(fc.conditional_mentions)
    \/ /\ ~IsArray(fc.question_titles)
       /\ questionTitles(fc).t = "null"
       /\ \E i \in 1..Len(ans) : i <= MAX_QUESTIONS /\ ans[i].text # <<>>

\* the titles questionTitles[index] can find: a number has no indexed properties, so
\* every questionTitles[index] is undefined, as in an empty array
IndexedTitles(fc) == IF IsArray(fc.question_titles) THEN questionTitles(fc) ELSE <<>>

-----------------------------------------------------------------------------
(* sendDiscordMessage of src/server.js *)

\* role_id.split(',').map(id => id.trim()).filter(id => id.length >= 17)
roleIdsFromCondition(condition) == SplitRoleIds(condition.role_id)

\* conditionalMentions.forEach(condition => { ... roleIds.push(...roleIdsFromCondition) })
RECURSIVE ConditionalRoles(_, _)
ConditionalRoles(conditions, ans) ==
    IF conditions = <<>> THEN <<>>
    ELSE (IF ConditionHolds(Head(conditions), ans)
          THEN roleIdsFromCondition(Head(conditions)) ELSE <<>>)
         \o ConditionalRoles(Tail(conditions), ans)

\* let roleIds = []; static roles pushed, then the conditional ones; [...new Set(roleIds)]
roleIds(fc, ans) ==
    Unique(staticRoles(fc) \o ConditionalRoles(conditionalMentions(fc), ans))

\* roleIds.map(id => '<@&' + id + '>').join(' ')
roleMentions(ids) ==
    Join([k \in 1..Len(ids) |-> <<"<", "@", "&">> \o ids[k] \o <<">">>], <<" ">>)

\* the content without the final trim
content_Untrimmed(roles, users) ==
    (IF roleMentions(roles) # <<>> THEN roleMentions(roles) \o <<" ">> ELSE <<>>)
    \o userMentions(users)

\* let content = ''; roles first, then users; content.trim()
content(roles, users) ==
    LET withRoles == IF roleMentions(roles) # <<>> THEN roleMentions(roles) \o <<" ">> ELSE <<>>
        withUsers == IF userMentions(users) # <<>> THEN withRoles \o userMentions(users)
                     ELSE withRoles
    IN  Trim(withUsers)

\* the label of the answer at index: the custom title at that position or 'Вопрос N'
questionText(titles, index) ==
    LET generated == JStr(QuestionPrefix \o NumToStr(index + 1))
    IN  IF index < Len(titles) /\ ~(titles[index + 1].t = "str" /\ titles[index + 1].v = <<>>)
        THEN IF titles[index + 1].t = "obj" /\ titles[index + 1].v.title # <<>>
             THEN JStr(titles[index + 1].v.title)
             ELSE IF titles[index + 1].t = "str" THEN titles[index + 1]
             ELSE generated
        ELSE generated

\* if (displayText.length > 1024) displayText = displayText.substring(0, 1020) + '...'
Truncate(text) ==
    IF Len(text) > FieldValueLimit
    THEN Substring(text, 0, FieldValueCut) \o <<".", ".", ".">>
    ELSE text

\* let displayText = answer.text; a Discord ID field becomes '<@' + discordId + '>'
displayText(fields, answer, index) ==
    LET discordId == StripNonDigits(answer.text)
        shown == IF Includes(fields, index) /\ IsDiscordId(discordId)
                 THEN <<"<", "@">> \o discordId \o <<">">>
                 ELSE answer.text
    IN  Truncate(shown)

\* limitedAnswers.forEach((answer, index) => { if (answer.text) embed.fields.push(...) })
answerFields(fc, ans) ==
    LET limitedAnswers == SubSeq(ans, 1, IF Len(ans) > MAX_QUESTIONS THEN MAX_QUESTIONS ELSE Len(ans))
        idx == [i \in 1..Len(limitedAnswers) |-> i - 1]
        shown == SelectSeq(idx, LAMBDA i : limitedAnswers[i + 1].text # <<>>)
    IN  [k \in 1..Len(shown) |->
            [name |-> questionText(IndexedTitles(fc), shown[k]),
             value |-> displayText(discordIdFields(fc), limitedAnswers[shown[k] + 1], shown[k]),
             inline |-> FALSE]]

\* the summary with the number of answers shown in place of the total
noteField_ShownTwice(ans) ==
    IF Len(ans) > MAX_QUESTIONS
    THEN <<[name |-> JStr(NoteName),
            value |-> NoteShown \o NumToStr(MAX_QUESTIONS) \o NoteOf \o NumToStr(MAX_QUESTIONS)
                      \o NoteQuestions,
            inline |-> FALSE]>>
    ELSE <<>>

\* if (answers.length > MAX_QUESTIONS) embed.fields.push({ name: '📝 Примечание', ... })
noteField(ans) ==
    IF Len(ans) > MAX_QUESTIONS
    THEN <<[name |-> JStr(NoteName),
            value |-> NoteShown \o NumToStr(MAX_QUESTIONS) \o NoteOf \o NumToStr(Len(ans))
                      \o NoteQuestions,
            inline |-> FALSE]>>
    ELSE <<>>

\* the fields with the placeholder step left out
withPlaceholder_Never(fields) == fields

\* if (embed.fields.length === 0) embed.fields.push({ name: '📝 Информация', ... })
withPlaceholder(fields) ==
    IF Len(fields) = 0
    THEN <<[name |-> JStr(InfoName), value |-> InfoValue, inline |-> FALSE]>>
    ELSE fields

HexVal(c) ==
    CASE c \in Digit -> DigitVal(c)
      [] c \in {"a", "A"} -> 10 [] c \in {"b", "B"} -> 11 [] c \in {"c", "C"} -> 12
      [] c \in {"d", "D"} -> 13 [] c \in {"e", "E"} -> 14 [] c \in {"f", "F"} -> 15
      [] OTHER -> -1

\* parseInt(s, 16) : the longest prefix of hexadecimal digits after white space, a
\* sign and 0x; NaN when there is none
parseInt16(s) ==
    LET start == {i \in 1..Len(s) : s[i] \notin WhiteSpace}
        s1 == IF start = {} THEN <<>> ELSE SubSeq(s, SetMin(start), Len(s))
        neg == s1 # <<>> /\ s1[1] = "-"
        s2 == IF s1 # <<>> /\ s1[1] \in {"-", "+"} THEN Tail(s1) ELSE s1
        s3 == IF Len(s2) >= 2 /\ s2[1] = "0" /\ s2[2] \in {"x", "X"} THEN SubSeq(s2, 3, Len(s2)) ELSE s2
        bad == {i \in 1..Len(s3) : HexVal(s3[i]) < 0}
        n == IF bad = {} THEN Len(s3) ELSE SetMin(bad) - 1
        val[k \in 0..n] == IF k = 0 THEN 0 ELSE 16 * val[k - 1] + HexVal(s3[k])
    IN  IF n = 0 THEN [nan |-> TRUE, v |-> 0]
        ELSE [nan |-> FALSE, v |-> IF neg THEN 0 - val[n] ELSE val[n]]

\* s.replace('#', '') : the first '#' removed
RemoveHash(s) ==
    LET at == {i \in 1..Len(s) : s[i] = "#"}
    IN  IF at = {} THEN s ELSE SubSeq(s, 1, SetMin(at) - 1) \o SubSeq(s, SetMin(at) + 1, Len(s))

\* const embed = { title, description, color, fields: [], timestamp, footer }
\* (the timestamp is the clock's reading and is left out)
embedHead(fc, formData) ==
    [title |-> IF fc.title # <<>> THEN fc.title
               ELSE TitlePrefix \o (IF formData.title # <<>> THEN formData.title ELSE fc.form_name),
     description |-> IF fc.description # <<>> THEN JStr(fc.description) ELSE JNull,
     color |-> parseInt16(RemoveHash(IF fc.color # <<>> THEN fc.color ELSE DefaultColor)),
     footer |-> [text |-> IF fc.footer # <<>> THEN fc.footer ELSE DefaultFooter]]

\* the payload with the content key set unconditionally
MakePayload_AlwaysContent(head, fields, text) ==
    [embeds |-> <<[title |-> head.title, description |-> head.description,
                   color |-> head.color, fields |-> fields, footer |-> head.footer]>>,
     content |-> text]

\* const payload = { embeds: [embed] }; if (content) payload.content = content
MakePayload(head, fields, text) ==
    LET embed == [title |-> head.title, description |-> head.description,
                  color |-> head.color, fields |-> fields, footer |-> head.footer]
    IN  IF text # <<>> THEN [embeds |-> <<embed>>, content |-> text]
        ELSE [embeds |-> <<embed>>]

\* the payload sendDiscordMessage posts to the webhook of a form whose webhook_url
\* passes isValidWebhookUrl, as every registered form's does
sendDiscordMessage(fc, formData, ans) ==
    MakePayload(embedHead(fc, formData),
                withPlaceholder(answerFields(fc, ans) \o noteField(ans)),
                content(roleIds(fc, ans), discordIds(discordIdFields(fc), ans)))

-----------------------------------------------------------------------------
(* sendDiscordMessage of src/unnamed/part_000 *)

\* conditionalMentions.forEach(condition => { ... conditionalRoleIds.push(role_id) })
conditionalRoleIds(conditions, ans) ==
    LET hit == SelectSeq(conditions, LAMBDA condition : ConditionHolds(condition, ans))
    IN  [k \in 1..Len(hit) |-> hit[k].role_id]

\* conditionalRoleIds.map(id => id.trim()).filter(id => id.length >= 17)
conditionalRoles(fc, ans) ==
    LET ids == conditionalRoleIds(conditionalMentions(fc), ans)
        trimmed == [k \in 1..Len(ids) |-> Trim(ids[k])]
    IN  SelectSeq(trimmed, LAMBDA id : Len(id) >= MinIdLength)

\* let mentionContent = ''; conditional roles, static roles, users; mentionContent.trim()
mentionContent(fc, ans) ==
    LET conditionalText == roleMentions(conditionalRoles(fc, ans))
        c1 == IF conditionalText # <<>> THEN conditionalText \o <<" ">> ELSE <<>>
        additionalMentions == roleMentions(staticRoles(fc))
        c2 == IF additionalMentions # <<>> THEN c1 \o additionalMentions \o <<" ">> ELSE c1
        users == discordIds(discordIdFields(fc), ans)
        c3 == IF Len(users) > 0 THEN c2 \o userMentions(users) ELSE c2
    IN  Trim(c3)

\* const questionText = questionTitles[index] || `Вопрос ${index + 1}`
questionTextOld(titles, index) ==
    IF index < Len(titles) /\ ~(titles[index + 1].t = "str" /\ titles[index + 1].v = <<>>)
    THEN titles[index + 1]
    ELSE JStr(QuestionPrefix \o NumToStr(index + 1))

\* the value of the embed field of one answer
fieldValue(fields, answer, index) ==
    LET discordId == StripNonDigits(answer.text)
    IN  IF Includes(fields, index)
        THEN IF IsDiscordId(discordId)
             THEN <<"<", "@">> \o discordId \o <<">">> \o MentionMark
                  \o (IF Len(fields) > 1
                      THEN <<" ">> \o NumToStr(IndexOf(fields, index) + 1) ELSE <<>>)
             ELSE answer.text
        ELSE IF Len(answer.text) > FieldValueLimit
             THEN Substring(answer.text, 0, FieldValueCut) \o <<".", ".", ".">>
             ELSE answer.text

\* limitedAnswers.forEach((answer, index) => { if (answer.text) { ... } })
answerFieldsOld(fc, ans) ==
    LET limitedAnswers == SubSeq(ans, 1, IF Len(ans) > MAX_QUESTIONS THEN MAX_QUESTIONS ELSE Len(ans))
        idx == [i \in 1..Len(limitedAnswers) |-> i - 1]
        shown == SelectSeq(idx, LAMBDA i : limitedAnswers[i + 1].text # <<>>)
    IN  [k \in 1..Len(shown) |->
            [name |-> questionTextOld(IndexedTitles(fc), shown[k]),
             value |-> fieldValue(discordIdFields(fc), limitedAnswers[shown[k] + 1], shown[k]),
             inline |-> FALSE]]

\* if (answers.length > MAX_QUESTIONS) embed.fields.push({ name: '📝 Примечание', ... })
noteFieldOld(ans) ==
    IF Len(ans) > MAX_QUESTIONS
    THEN <<[name |-> JStr(NoteName),
            value |-> NoteShown \o NumToStr(MAX_QUESTIONS) \o NoteOf \o NumToStr(Len(ans))
                      \o NoteQuestions \o NoteRest,
            inline |-> FALSE]>>
    ELSE <<>>

\* the payload sendDiscordMessage of part_000 posts to the webhook
sendDiscordMessageOld(fc, formData, ans) ==
    MakePayload(embedHead(fc, formData),
                withPlaceholder(answerFieldsOld(fc, ans) \o noteFieldOld(ans)),
                mentionContent(fc, ans))

-----------------------------------------------------------------------------
(* JavaScript values of a request body *)

JUndefined == [t |-> "undefined", v |-> <<>>]

JBool(b) == [t |-> "bool", v |-> b]

JArr(items) == [t |-> "arr", v |-> items]

\* an object: its members in the order of Object.keys, each [k |-> key, v |-> value]
JObj(members) == [t |-> "object", v |-> members]

\* what a thrown TypeError leaves in the place of a value
Thrown == [t |-> "thrown", v |-> <<>>]

\* if (x), !x, x || y
Truthy(x) ==
    CASE x.t = "null" -> FALSE
      [] x.t = "undefined" -> FALSE
      [] x.t = "num" -> x.v # 0
      [] x.t = "bool" -> x.v
      [] x.t = "str" -> x.v # <<>>
      [] OTHER -> TRUE

\* x.key for a named property: a TypeError on null and undefined, undefined on a
\* value without the property
Get(x, key) ==
    IF x.t \in {"null", "undefined", "thrown"} THEN Thrown
    ELSE IF x.t = "object" /\ \E m \in 1..Len(x.v) : x.v[m].k = key
         THEN x.v[CHOOSE m \in 1..Len(x.v) : x.v[m].k = key].v
         ELSE JUndefined

\* String(x)
RECURSIVE String(_)
String(x) ==
    CASE x.t = "str" -> x.v
      [] x.t = "num" -> NumToStr(x.v)
      [] x.t = "bool" -> (IF x.v THEN <<"t", "r", "u", "e">> ELSE <<"f", "a", "l", "s", "e">>)
      [] x.t = "null" -> <<"n", "u", "l", "l">>
      [] x.t = "undefined" -> <<"u", "n", "d", "e", "f", "i", "n", "e", "d">>
      [] x.t = "arr" ->
            Join([k \in 1..Len(x.v) |->
                     IF x.v[k].t \in {"null", "undefined"} THEN <<>> ELSE String(x.v[k])],
                 <<",">>)
      [] OTHER -> <<"[", "o", "b", "j", "e", "c", "t", " ", "O", "b", "j", "e", "c", "t", "]">>

\* the text between quotes as it is, nothing escaped
Quote_Unescaped(s) == <<"\"">> \o s \o <<"\"">>

\* the JSON text of a string: quoted, with the quote, the backslash and the control
\* characters escaped
Quote(s) ==
    LET escape(c) ==
            CASE c = "\"" -> <<"\\", "\"">>
              [] c = "\\" -> <<"\\", "\\">>
              [] c = "\n" -> <<"\\", "n">>
              [] c = "\t" -> <<"\\", "t">>
              [] c = "\r" -> <<"\\", "r">>
              [] OTHER -> <<c>>
    IN  <<"\"">> \o Join([i \in 1..Len(s) |-> escape(s[i])], <<>>) \o <<"\"">>

\* JSON.stringify(x) : an undefined array element is written null, an undefined
\* member is left out
RECURSIVE stringify(_)
stringify(x) ==
    CASE x.t = "str" -> Quote(x.v)
      [] x.t = "num" -> NumToStr(x.v)
      [] x.t = "bool" -> (IF x.v THEN <<"t", "r", "u", "e">> ELSE <<"f", "a", "l", "s", "e">>)
      [] x.t = "arr" ->
            <<"[">>
            \o Join([k \in 1..Len(x.v) |->
                        IF x.v[k].t = "undefined" THEN <<"n", "u", "l", "l">> ELSE stringify(x.v[k])],
                    <<",">>)
            \o <<"]">>
      [] x.t = "object" ->
            LET kept == SelectSeq(x.v, LAMBDA m : m.v.t # "undefined")
            IN  <<"{">>
                \o Join([k \in 1..Len(kept) |->
                            Quote(kept[k].k) \o <<":">> \o stringify(kept[k].v)],
                        <<",">>)
                \o <<"}">>
      [] OTHER -> <<"n", "u", "l", "l">>

\* JSON.parse(s), by recursive descent; a result is [ok, val, next], next the position
\* after the value. Numbers are the non-negative integers.
NoParse == [ok |-> FALSE, val |-> JNull, next |-> 0]

\* the first position from i on that is not white space
RECURSIVE SkipSpace(_, _)
SkipSpace(s, i) ==
    IF i <= Len(s) /\ s[i] \in WhiteSpace THEN SkipSpace(s, i + 1) ELSE i

\* whether the word stands in s at position i
StandsAt(s, i, word) ==
    /\ i + Len(word) - 1 <= Len(s)
    /\ SubSeq(s, i, i + Len(word) - 1) = word

\* the characters of a string literal from i (after the opening quote) on
RECURSIVE StringBodyAt(_, _, _)
StringBodyAt(s, i, acc) ==
    IF i > Len(s) THEN NoParse
    ELSE IF s[i] = "\"" THEN [ok |-> TRUE, val |-> JStr(acc), next |-> i + 1]
    ELSE IF s[i] \in {"\n", "\t", "\r"} THEN NoParse
    ELSE IF s[i] = "\\"
         THEN IF i + 1 > Len(s) THEN NoParse
              ELSE CASE s[i + 1] \in {"\"", "\\", "/"} ->
                            StringBodyAt(s, i + 2, Append(acc, s[i + 1]))
                     [] s[i + 1] = "n" -> StringBodyAt(s, i + 2, Append(acc, "\n"))
                     [] s[i + 1] = "t" -> StringBodyAt(s, i + 2, Append(acc, "\t"))
                     [] s[i + 1] = "r" -> StringBodyAt(s, i + 2, Append(acc, "\r"))
                     [] OTHER -> NoParse
    ELSE StringBodyAt(s, i + 1, Append(acc, s[i]))

\* the end of the run of digits that starts at i
RECURSIVE DigitsEnd(_, _)
DigitsEnd(s, i) == IF i <= Len(s) /\ s[i] \in Digit THEN DigitsEnd(s, i + 1) ELSE i

\* o[key] = value on the members of an object: a repeated key keeps its place
PutMember(members, key, value) ==
    IF \E m \in 1..Len(members) : members[m].k = key
    THEN [m \in 1..Len(members) |->
             IF members[m].k = key THEN [k |-> key, v |-> value] ELSE members[m]]
    ELSE Append(members, [k |-> key, v |-> value])

RECURSIVE ValueAt(_, _), ElementsAt(_, _, _), MembersAt(_, _, _)
ValueAt(s, i) ==
    IF i > Len(s) THEN NoParse
    ELSE IF StandsAt(s, i, <<"n", "u", "l", "l">>) THEN [ok |-> TRUE, val |-> JNull, next |-> i + 4]
    ELSE IF StandsAt(s, i, <<"t", "r", "u", "e">>) THEN [ok |-> TRUE, val |-> JBool(TRUE), next |-> i + 4]
    ELSE IF StandsAt(s, i, <<"f", "a", "l", "s", "e">>) THEN [ok |-> TRUE, val |-> JBool(FALSE), next |-> i + 5]
    ELSE IF s[i] \in Digit
         THEN IF s[i] = "0" /\ DigitsEnd(s, i) > i + 1 THEN NoParse
              ELSE [ok |-> TRUE, val |-> JNum(StrToNum(SubSeq(s, i, DigitsEnd(s, i) - 1))),
                    next |-> DigitsEnd(s, i)]
    ELSE IF s[i] = "\"" THEN StringBodyAt(s, i + 1, <<>>)
    ELSE IF s[i] = "["
         THEN IF SkipSpace(s, i + 1) <= Len(s) /\ s[SkipSpace(s, i + 1)] = "]"
              THEN [ok |-> TRUE, val |-> JArr(<<>>), next |-> SkipSpace(s, i + 1) + 1]
              ELSE ElementsAt(s, SkipSpace(s, i + 1), <<>>)
    ELSE IF s[i] = "{"
         THEN IF SkipSpace(s, i + 1) <= Len(s) /\ s[SkipSpace(s, i + 1)] = "}"
              THEN [ok |-> TRUE, val |-> JObj(<<>>), next |-> SkipSpace(s, i + 1) + 1]
              ELSE MembersAt(s, SkipSpace(s, i + 1), <<>>)
    ELSE NoParse

\* the elements of an array from i on, after those of acc
ElementsAt(s, i, acc) ==
    LET element == ValueAt(s, i)
        after == SkipSpace(s, element.next)
    IN  IF ~element.ok \/ after > Len(s) THEN NoParse
        ELSE IF s[after] = "]"
             THEN [ok |-> TRUE, val |-> JArr(Append(acc, element.val)), next |-> after + 1]
        ELSE IF s[after] = ","
             THEN ElementsAt(s, SkipSpace(s, after + 1), Append(acc, element.val))
        ELSE NoParse

\* the members of an object from i on, after those of acc
MembersAt(s, i, acc) ==
    IF i > Len(s) \/ s[i] # "\"" THEN NoParse
    ELSE LET key == StringBodyAt(s, i + 1, <<>>)
             colon == SkipSpace(s, key.next)
         IN  IF ~key.ok \/ colon > Len(s) \/ s[colon] # ":" THEN NoParse
             ELSE LET member == ValueAt(s, SkipSpace(s, colon + 1))
                      after == SkipSpace(s, member.next)
                      members == PutMember(acc, key.val.v, member.val)
                  IN  IF ~member.ok \/ after > Len(s) THEN NoParse
                      ELSE IF s[after] = "}"
                           THEN [ok |-> TRUE, val |-> JObj(members), next |-> after + 1]
                      ELSE IF s[after] = ","
                           THEN MembersAt(s, SkipSpace(s, after + 1), members)
                      ELSE NoParse

\* JSON.parse(s) : ok is FALSE where JSON.parse throws a SyntaxError
JSONparse(s) ==
    LET value == ValueAt(s, SkipSpace(s, 1))
    IN  IF value.ok /\ SkipSpace(s, value.next) > Len(s) THEN value ELSE NoParse

-----------------------------------------------------------------------------
(* parseYandexFormAnswers *)

KeyQuestionId == <<"q", "u", "e", "s", "t", "i", "o", "n", "_", "i", "d">>

KeyText == <<"t", "e", "x", "t">>

KeyValue == <<"v", "a", "l", "u", "e">>

KeyAnswer == <<"a", "n", "s", "w", "e", "r">>

KeyData == <<"d", "a", "t", "a">>

KeyAnswers == <<"a", "n", "s", "w", "e", "r", "s">>

KeyFormId == <<"f", "o", "r", "m", "I", "d">>

KeyFormIdSnake == <<"f", "o", "r", "m", "_", "i", "d">>

KeyFormTitle == <<"f", "o", "r", "m", "T", "i", "t", "l", "e">>

KeyFormTitleSnake == <<"f", "o", "r", "m", "_", "t", "i", "t", "l", "e">>

\* { question_id: question_id, text: text }
Answer(question_id, text) ==
    JObj(<<[k |-> KeyQuestionId, v |-> question_id], [k |-> KeyText, v |-> JStr(text)]>>)

\* a || b, where the evaluation of a may have thrown
Or(a, b) == IF a.t = "thrown" THEN a ELSE IF Truthy(a) THEN a ELSE b

\* (answer, index) => ({ question_id: answer.question_id || 'q' + index,
\*                       text: String(answer.text || answer.value || answer.answer || '') })
canonicalAnswer(answer, index) ==
    LET question_id == Or(Get(answer, KeyQuestionId), JStr(<<"q">> \o NumToStr(index)))
        text == Or(Or(Or(Get(answer, KeyText), Get(answer, KeyValue)), Get(answer, KeyAnswer)),
                   JStr(<<>>))
    IN  IF text.t = "thrown" THEN Thrown ELSE Answer(question_id, String(text))

\* answersData.map(...) : the TypeError of one element ends the whole map
mapAnswers(items) ==
    LET mapped == [i \in 1..Len(items) |-> canonicalAnswer(items[i], i - 1)]
    IN  IF \E i \in 1..Len(items) : mapped[i].t = "thrown" THEN Thrown ELSE JArr(mapped)

\* Object.keys(o) with the values they name: the members of an object, the indices of
\* an array or of a string, nothing for a number or a boolean
Entries(o) ==
    CASE o.t = "object" -> o.v
      [] o.t = "arr" -> [i \in 1..Len(o.v) |-> [k |-> NumToStr(i - 1), v |-> o.v[i]]]
      [] o.t = "str" -> [i \in 1..Len(o.v) |-> [k |-> NumToStr(i - 1), v |-> JStr(<<o.v[i]>>)]]
      [] OTHER -> <<>>

\* let answerText = field.value; a list is joined, an object is written as JSON
answerText(value) ==
    IF value.t = "arr"
    THEN IF \E i \in 1..Len(value.v) : value.v[i].t \in {"null", "undefined"} THEN Thrown
         ELSE JStr(Join([i \in 1..Len(value.v) |->
                            String(Or(Get(value.v[i], KeyText), value.v[i]))],
                        <<",", " ">>))
    ELSE IF value.t \in {"object", "null"} THEN JStr(stringify(value))
    ELSE JStr(String(value))

\* Object.keys(data).forEach(key => { ... answers.push({ question_id: key, text }) })
\* skipNull: the test field.value !== null, which only src/server.js makes
dataAnswers(data, skipNull) ==
    LET kept == SelectSeq(Entries(data),
                    LAMBDA e : /\ Truthy(e.v)
                               /\ Get(e.v, KeyValue).t # "undefined"
                               /\ (skipNull => Get(e.v, KeyValue).t # "null"))
        texts == [i \in 1..Len(kept) |-> answerText(Get(kept[i].v, KeyValue))]
    IN  IF \E i \in 1..Len(kept) : texts[i].t = "thrown" THEN Thrown
        ELSE JArr([i \in 1..Len(kept) |-> Answer(JStr(kept[i].k), texts[i].v)])

\* Object.keys(answersData).forEach(key => { if (!excluded.includes(key)) ... })
flatAnswers(answersData, excluded) ==
    LET kept == SelectSeq(Entries(answersData), LAMBDA e : e.k \notin excluded)
    IN  JArr([i \in 1..Len(kept) |-> Answer(JStr(kept[i].k), String(kept[i].v))])

\* ['formId', 'form_id', 'formTitle', 'form_title', 'answers']
ExcludedKeys == {KeyFormId, KeyFormIdSnake, KeyFormTitle, KeyFormTitleSnake, KeyAnswers}

\* key !== 'formId' && key !== 'formTitle'
ExcludedKeysOld == {KeyFormId, KeyFormTitle}

RECURSIVE parseYandexFormAnswers(_)
\* the try block of parseYandexFormAnswers of src/server.js
tryBlock(answersData) ==
    IF ~Truthy(answersData) THEN JArr(<<>>)
    ELSE IF answersData.t = "arr" THEN mapAnswers(answersData.v)
    ELSE IF answersData.t = "str"
         THEN LET parsed == JSONparse(answersData.v)
              IN  IF parsed.ok THEN parseYandexFormAnswers(parsed.val)
                  ELSE JArr(<<Answer(JStr(<<"q", "0">>), answersData.v)>>)
    ELSE IF answersData.t = "object"
         THEN IF /\ Truthy(Get(answersData, KeyAnswer))
                 /\ Truthy(Get(Get(answersData, KeyAnswer), KeyData))
              THEN dataAnswers(Get(Get(answersData, KeyAnswer), KeyData), TRUE)
              ELSE flatAnswers(answersData, ExcludedKeys)
    ELSE JArr(<<>>)

\* the function without its catch block
parseYandexFormAnswers_NoCatch(answersData) == tryBlock(answersData)

\* try { ... } catch (error) { return [] }
parseYandexFormAnswers(answersData) ==
    IF tryBlock(answersData).t = "thrown" THEN JArr(<<>>) ELSE tryBlock(answersData)

RECURSIVE parseYandexFormAnswersOld(_)
\* the try block of parseYandexFormAnswers of src/unnamed/part_000
tryBlockOld(answersData) ==
    IF answersData.t = "arr" THEN answersData
    ELSE IF answersData.t = "str"
         THEN LET parsed == JSONparse(answersData.v)
              IN  IF parsed.ok THEN parseYandexFormAnswersOld(parsed.val) ELSE Thrown
    ELSE IF /\ Truthy(answersData)
            /\ Truthy(Get(answersData, KeyAnswer))
            /\ Truthy(Get(Get(answersData, KeyAnswer), KeyData))
         THEN dataAnswers(Get(Get(answersData, KeyAnswer), KeyData), FALSE)
    ELSE IF Truthy(answersData) /\ answersData.t = "object"
         THEN flatAnswers(answersData, ExcludedKeysOld)
    ELSE JArr(<<>>)

\* try { ... } catch (error) { return [] } of src/unnamed/part_000
parseYandexFormAnswersOld(answersData) ==
    IF tryBlockOld(answersData).t = "thrown" THEN JArr(<<>>) ELSE tryBlockOld(answersData)

-----------------------------------------------------------------------------
(* Inputs: what an administrator stores and what a submission carries *)

Versions == {"server.js", "part_000"}

ID_A == Rep("1", MinIdLength)

ID_B == Rep("2", MinIdLength)

ID_C == Rep("3", MinIdLength)

\* one digit short of an identifier
ShortId == Rep("5", MinIdLength - 1)

\* 17 characters that are not digits
WordId == <<"m", "o", "d", "e", "r", "a", "t", "o", "r", "s", "-", "r", "o", "l", "e", "-", "1">>

Yes == <<"Y", "e", "s">>

\* the mentions field of the configuration form
MentionsInputs ==
    { <<>>,
      ID_A \o <<",", " ">> \o ID_B,
      ID_B \o <<",">> \o ID_A \o <<",">> \o ShortId \o <<",">> \o ID_B,
      WordId }

\* getDiscordIdFields() of the configuration form: parsed integers
DiscordIdFieldsInputs ==
    { <<JNum(0)>>, <<JNum(1), JNum(0)>>, <<JNum(0), JNum(0)>> }

\* getConditionalMentions() of the configuration form; an answer value typed as
\* blanks passes its emptiness test and is stored trimmed, as ''
ConditionalMentionsInputs ==
    { <<>>,
      <<[question_index |-> 0, answer_value |-> Yes, role_id |-> ID_A \o <<",">> \o ID_B]>>,
      <<[question_index |-> 1, answer_value |-> Yes, role_id |-> ID_C \o <<",", " ">> \o ID_C],
        [question_index |-> 0, answer_value |-> Yes, role_id |-> ID_A],
        [question_index |-> 0, answer_value |-> <<"y", "e", "s">>, role_id |-> ID_B]>>,
      <<[question_index |-> 0, answer_value |-> Yes, role_id |-> ShortId],
        [question_index |-> 1, answer_value |-> <<>>, role_id |-> ID_C]>> }

\* the display settings of the configuration form, with getQuestionTitles()
DisplayInputs ==
    { [title |-> <<>>, description |-> <<>>, color |-> DefaultColor, footer |-> DefaultFooter,
       question_titles |-> <<>>],
      [title |-> <<"T">>, description |-> <<"D">>, color |-> <<"#", "f", "f", "0", "0", "0", "0">>,
       footer |-> <<>>,
       question_titles |-> <<[t |-> "obj", v |-> [index |-> 1, title |-> <<"N", "a", "m", "e">>]]>>] }

\* the texts of the varied answers
TextInputs ==
    { <<>>,
      <<" ">> \o Yes \o <<" ">>,
      <<"@">> \o Rep("4", MinIdLength),
      ShortId,
      Rep("6", LongLen) }

FillerText == <<"o", "k">>

\* the rest of a submission: the form title it carries and the filler answers that
\* make it long (none, answered, or left empty)
EnvelopeInputs ==
    { [formTitle |-> <<>>, text |-> FillerText, pad |-> 0],
      [formTitle |-> <<"F", "o", "r", "m">>, text |-> FillerText, pad |-> MaxPad],
      [formTitle |-> <<>>, text |-> <<>>, pad |-> MaxPad] }

\* a submission: some varied answers followed by pad filler answers
Submission(texts, fillerText, pad) ==
    LET all == texts \o Rep(fillerText, pad)
    IN  [i \in 1..Len(all) |-> [question_id |-> <<"q">> \o NumToStr(i - 1), text |-> all[i]]]

\* the answer indices the configurations refer to (discord_id_fields, question_index)
ReferencedIndices == {0, 1}

\* the texts of the leading answers of a submission: those at the referenced indices
VariedTexts == UNION {[1..n -> TextInputs] : n \in 0..Cardinality(ReferencedIndices)}

-----------------------------------------------------------------------------
(* The state machine *)

\* the row INSERT INTO forms (form_id, form_name, webhook_url) creates: column defaults
RegisteredForm ==
    [form_name |-> <<"F">>,
     title |-> <<>>, description |-> <<>>, color |-> DefaultColor, footer |-> DefaultFooter,
     mentions |-> <<>>,
     question_titles |-> JsonText(<<>>),
     discord_id_fields |-> JsonText(<<JStr(<<"0">>)>>),
     conditional_mentions |-> JsonText(<<>>)]

\* a registered form and no submission at hand
SendIdle ==
    /\ formConfig = RegisteredForm
    /\ formTitle = <<>>
    /\ answers = <<>>
    /\ pc = "idle"
    /\ posted = <<>>

\* no call of parseYandexFormAnswers at hand
ParseOff ==
    /\ argument = JUndefined
    /\ result = JUndefined
    /\ reparsed = JUndefined
    /\ step = "off"

\* no request body at hand
HookOff ==
    /\ requestBody = JUndefined
    /\ handed = JUndefined
    /\ hook = "off"

\* the color column of a registered form (DEFAULT '#5865f2') and no embed built
ColorOff ==
    /\ colorColumn = DefaultColor
    /\ embedColor = <<>>

\* the tables as CREATE TABLE IF NOT EXISTS makes them
DbOff ==
    /\ forms = <<>>
    /\ logs = <<>>

\* the calls of the handler of POST /webhook/yandex-form that can be in progress at
\* the same time
Requests == {"r1", "r2"}

\* the variables of a call of the handler before it has assigned them
NoLocals ==
    [formId |-> <<>>, formTitle |-> <<>>, answers |-> <<>>,
     err |-> FALSE, formConfig |-> <<>>, error |-> "none"]

\* no request to POST /webhook/yandex-form has arrived
RelayOff ==
    /\ request = [r \in Requests |-> [envelope |-> "none", formId |-> <<>>,
                                      formTitle |-> <<>>, answers |-> <<>>]]
    /\ locals = [r \in Requests |-> NoLocals]
    /\ stage = [r \in Requests |-> "none"]
    /\ outbox = [r \in Requests |-> <<>>]
    /\ responses = [r \in Requests |-> <<>>]

\* no broadcast in progress
NoBroadcast ==
    [stage |-> "idle", rows |-> <<>>, i |-> 0, attempted |-> <<>>, results |-> <<>>,
     successCount |-> 0, response |-> <<>>]

\* the server after it has started: nobody logged in, no backup file, no request yet
AdminOff ==
    /\ session = [authenticated |-> FALSE]
    /\ backups = <<>>
    /\ reply = 0
    /\ targets = {}
    /\ broadcast = NoBroadcast
    /\ handled = 0

\* nothing at hand in the service around the relay
ServiceOff ==
    /\ ColorOff
    /\ DbOff
    /\ RelayOff
    /\ AdminOff

Init ==
    /\ version \in Versions
    /\ SendIdle
    /\ ParseOff
    /\ HookOff
    /\ ServiceOff

\* PUT /admin/forms/:formId/config : UPDATE forms SET ... with JSON.stringify of the lists
PutFormConfig ==
    /\ pc = "idle"
    /\ \E m \in MentionsInputs, f \in DiscordIdFieldsInputs,
          c \in ConditionalMentionsInputs, d \in DisplayInputs :
          formConfig' = [formConfig EXCEPT
                            !.title = d.title, !.description = d.description,
                            !.color = d.color, !.footer = d.footer, !.mentions = m,
                            !.question_titles = JsonText(d.question_titles),
                            !.discord_id_fields = JsonText(f),
                            !.conditional_mentions = JsonText(c)]
    /\ UNCHANGED <<version, serviceVars, formTitle, answers, pc, posted, parseVars, hookVars>>

\* the forms of a backup file: JSON columns that do not parse, and JSON columns that
\* parse to a number or to null
ImportedForms ==
    { [mentions |-> m, question_titles |-> NotJson, discord_id_fields |-> NotJson,
       conditional_mentions |-> NotJson] : m \in MentionsInputs }
    \cup
    { [mentions |-> <<>>, question_titles |-> JsonText(<<>>),
       discord_id_fields |-> JsonValue(JNum(5)), conditional_mentions |-> JsonText(<<>>)],
      [mentions |-> <<>>, question_titles |-> JsonText(<<>>),
       discord_id_fields |-> JsonText(<<JNum(0)>>), conditional_mentions |-> JsonValue(JNull)],
      [mentions |-> <<>>, question_titles |-> JsonValue(JNull),
       discord_id_fields |-> JsonText(<<JNum(0)>>), conditional_mentions |-> JsonText(<<>>)],
      [mentions |-> <<>>, question_titles |-> JsonValue(JNum(5)),
       discord_id_fields |-> JsonText(<<JNum(0)>>), conditional_mentions |-> JsonText(<<>>)] }

\* POST /admin/backup/import : the forms are replaced by those of an uploaded backup
\* file, whose column texts are stored as they are
ImportForm ==
    /\ pc = "idle"
    /\ \E form \in ImportedForms :
          formConfig' = [RegisteredForm EXCEPT
                            !.mentions = form.mentions,
                            !.question_titles = form.question_titles,
                            !.discord_id_fields = form.discord_id_fields,
                            !.conditional_mentions = form.conditional_mentions]
    /\ UNCHANGED <<version, serviceVars, formTitle, answers, pc, posted, parseVars, hookVars>>

\* POST /webhook/yandex-form : a submission for the form arrives and is normalized
Receive ==
    /\ pc = "idle"
    /\ \E texts \in VariedTexts, envelope \in EnvelopeInputs :
          /\ answers' = Submission(texts, envelope.text, envelope.pad)
          /\ formTitle' = envelope.formTitle
    /\ pc' = "received"
    /\ posted' = <<>>
    /\ UNCHANGED <<version, serviceVars, formConfig, parseVars, hookVars>>

\* await sendDiscordMessage(formConfig, formData, answers) : the payload is posted,
\* or the call throws and the handler's catch takes over (DISCORD_ERROR)
Send ==
    /\ pc = "received"
    /\ IF Raises(formConfig, answers)
       THEN /\ posted' = <<>>
            /\ pc' = "failed"
       ELSE /\ LET formData ==
                       [title |-> IF formTitle # <<>> THEN formTitle ELSE formConfig.form_name]
               IN  posted' = <<IF version = "server.js"
                               THEN sendDiscordMessage(formConfig, formData, answers)
                               ELSE sendDiscordMessageOld(formConfig, formData, answers)>>
            /\ pc' = "sent"
    /\ UNCHANGED <<version, serviceVars, formConfig, formTitle, answers, parseVars, hookVars>>

\* res.json(...) : the request is answered (status 500 after a throw)
Respond ==
    /\ pc \in {"sent", "failed"}
    /\ pc' = "idle"
    /\ formTitle' = <<>>
    /\ answers' = <<>>
    /\ posted' = <<>>
    /\ UNCHANGED <<version, serviceVars, formConfig, parseVars, hookVars>>

Next == PutFormConfig \/ ImportForm \/ Receive \/ Send \/ Respond

Spec == Init /\ [][Next]_vars

-----------------------------------------------------------------------------
(* Inputs of the normalization *)

\* the longest array given to parseYandexFormAnswers
MaxArrayLen == 2

\* { key: value } members
Member(key, value) == [k |-> key, v |-> value]

\* the elements an answers array is made of: answers in the canonical shape (the
\* second with a quote and a backslash in its text, the last with an empty text),
\* answers without an id or with their text under value or answer, answers whose
\* text is not a string, and elements that are not objects
ElementInputs ==
    << JObj(<<Member(KeyQuestionId, JStr(<<"a">>)), Member(KeyText, JStr(<<"x">>))>>),
       JObj(<<Member(KeyQuestionId, JStr(<<"b">>)),
              Member(KeyText, JStr(<<"\"", "y", "\\">>))>>),
       JObj(<<Member(KeyQuestionId, JStr(<<"g">>)), Member(KeyText, JStr(<<>>))>>),
       JObj(<<Member(KeyText, JStr(<<"y">>))>>),
       JObj(<<Member(KeyQuestionId, JStr(<<"c">>)), Member(KeyValue, JStr(<<"v">>))>>),
       JObj(<<Member(KeyAnswer, JStr(<<"w">>))>>),
       JObj(<<Member(KeyQuestionId, JStr(<<"d">>)), Member(KeyText, JNum(0)),
              Member(KeyValue, JStr(<<"a", "l", "t">>))>>),
       JObj(<<Member(KeyQuestionId, JStr(<<"e">>)), Member(KeyText, JBool(FALSE))>>),
       JObj(<<Member(KeyQuestionId, JStr(<<"f">>)), Member(KeyText, JNum(7))>>),
       JNull,
       JStr(<<"s">>) >>

\* an array of two canonical answers, for the encoded inputs
CanonicalArray == JArr(<<ElementInputs[1], ElementInputs[2]>>)

\* { answer: { data: { f1: { value: 'v1' }, f2: { value: ['a', { text: 'b' }] },
\*   f3: { value: { k: 'o' } }, f4: { value: null }, f5: null } } }
ProviderEnvelope ==
    JObj(<<Member(KeyAnswer, JObj(<<Member(KeyData, JObj(<<
        Member(<<"f", "1">>, JObj(<<Member(KeyValue, JStr(<<"v", "1">>))>>)),
        Member(<<"f", "2">>, JObj(<<Member(KeyValue,
            JArr(<<JStr(<<"a">>), JObj(<<Member(KeyText, JStr(<<"b">>))>>)>>))>>)),
        Member(<<"f", "3">>, JObj(<<Member(KeyValue,
            JObj(<<Member(<<"k">>, JStr(<<"o">>))>>))>>)),
        Member(<<"f", "4">>, JObj(<<Member(KeyValue, JNull)>>)),
        Member(<<"f", "5">>, JNull)>>))>>))>>)

\* { answer: { data: { f1: { value: 'v1' }, f2: { value: ['a', null] } } } }
ProviderEnvelopeNullItem ==
    JObj(<<Member(KeyAnswer, JObj(<<Member(KeyData, JObj(<<
        Member(<<"f", "1">>, JObj(<<Member(KeyValue, JStr(<<"v", "1">>))>>)),
        Member(<<"f", "2">>, JObj(<<Member(KeyValue,
            JArr(<<JStr(<<"a">>), JNull>>))>>))>>))>>))>>)

\* { name: 'Bob', formId: 'F', form_id: 'G', answers: 'zz', age: 5 }
FlatObject ==
    JObj(<<Member(<<"n", "a", "m", "e">>, JStr(<<"B", "o", "b">>)),
           Member(KeyFormId, JStr(<<"F">>)),
           Member(KeyFormIdSnake, JStr(<<"G">>)),
           Member(KeyAnswers, JStr(<<"z", "z">>)),
           Member(<<"a", "g", "e">>, JNum(5))>>)

\* the inputs that are not arrays: the values without answers, strings that are not
\* JSON, strings that are the JSON text of a number, of an array, of an object and of
\* a string holding JSON text, and objects of the provider's and of the flat shape
OtherInputs ==
    << JUndefined, JNull, JNum(0), JNum(5), JBool(TRUE), JBool(FALSE),
       JStr(<<>>),
       JStr(<<"h", "e", "l", "l", "o">>),
       JStr(<<"[", "1", ",">>),
       JStr(<<"1", "2">>),
       JStr(<<" ", "[", " ", "]", " ">>),
       JStr(stringify(CanonicalArray)),
       JStr(stringify(JStr(stringify(JArr(<<ElementInputs[4]>>))))),
       JStr(stringify(FlatObject)),
       ProviderEnvelope,
       ProviderEnvelopeNullItem,
       FlatObject,
       JObj(<<>>) >>

\* x is one of the inputs: an array of at most MaxArrayLen elements, or another input
IsInput(x) ==
    \/ \E n \in 0..MaxArrayLen : \E f \in [1..n -> 1..Len(ElementInputs)] :
          x = JArr([i \in 1..n |-> ElementInputs[f[i]]])
    \/ \E k \in 1..Len(OtherInputs) : x = OtherInputs[k]

-----------------------------------------------------------------------------
(* parseYandexFormAnswers applied to the inputs, and to the JSON text of its result *)

\* parseYandexFormAnswers of the variant at hand
Normalized(x) ==
    IF version = "server.js" THEN parseYandexFormAnswers(x) ELSE parseYandexFormAnswersOld(x)

InitParse ==
    /\ version \in Versions
    /\ SendIdle
    /\ HookOff
    /\ ServiceOff
    /\ IsInput(argument)
    /\ result = JUndefined
    /\ reparsed = JUndefined
    /\ step = "input"

\* result = parseYandexFormAnswers(argument)
Parse ==
    /\ step = "input"
    /\ result' = Normalized(argument)
    /\ step' = "parsed"
    /\ UNCHANGED <<version, serviceVars, sendVars, hookVars, argument, reparsed>>

\* parseYandexFormAnswers(JSON.stringify(result))
Reparse ==
    /\ step = "parsed"
    /\ reparsed' = Normalized(JStr(stringify(result)))
    /\ step' = "reparsed"
    /\ UNCHANGED <<version, serviceVars, sendVars, hookVars, argument, result>>

NextParse == Parse \/ Reparse

ParseSpec == InitParse /\ [][NextParse]_vars

-----------------------------------------------------------------------------
(* POST /webhook/yandex-form : from the request body to the answers handed to
   sendDiscordMessage; the two variants differ in parseYandexFormAnswers only *)

KeyJsonrpc == <<"j", "s", "o", "n", "r", "p", "c">>

KeyParams == <<"p", "a", "r", "a", "m", "s">>

KeyForm == <<"f", "o", "r", "m">>

KeyId == <<"i", "d">>

KeyTitle == <<"t", "i", "t", "l", "e">>

\* requestBody && requestBody.jsonrpc === '2.0'
IsJsonRpc(body) ==
    /\ Truthy(body)
    /\ Get(body, KeyJsonrpc).t = "str"
    /\ Get(body, KeyJsonrpc).v = <<"2", ".", "0">>

\* the answers of a JSON-RPC request: a string is parsed by the handler itself, and
\* answers = [] when that fails
answersOfJsonRpc(params) ==
    IF Truthy(Get(params, KeyAnswers))
    THEN IF Get(params, KeyAnswers).t = "str"
         THEN LET parsed == JSONparse(Get(params, KeyAnswers).v)
              IN  IF parsed.ok THEN Normalized(parsed.val) ELSE JArr(<<>>)
         ELSE Normalized(Get(params, KeyAnswers))
    ELSE JArr(<<>>)

\* the answers of a plain POST request: taken as they are for a body with form.id,
\* normalized for a body with formId or form_id, and built from the other members of
\* the body when it has no answers
answersOfPost(body) ==
    IF Truthy(body) /\ Truthy(Get(body, KeyForm)) /\ Truthy(Get(Get(body, KeyForm), KeyId))
    THEN Or(Get(body, KeyAnswers), JArr(<<>>))
    ELSE IF Truthy(Get(body, KeyAnswers))
         THEN Normalized(Get(body, KeyAnswers))
         ELSE flatAnswers(body, ExcludedKeys)

\* the bodies that carry the payload as their answers, one per envelope
\* { jsonrpc: '2.0', params: { formId, formTitle, answers }, id: 1 }
JsonRpcBody(payload) ==
    JObj(<<Member(KeyJsonrpc, JStr(<<"2", ".", "0">>)),
           Member(KeyParams, JObj(<<Member(KeyFormId, JStr(<<"F">>)),
                                    Member(KeyFormTitle, JStr(<<"T">>)),
                                    Member(KeyAnswers, payload)>>)),
           Member(KeyId, JNum(1))>>)

\* { form: { id, title }, answers }
FormBody(payload) ==
    JObj(<<Member(KeyForm, JObj(<<Member(KeyId, JStr(<<"F">>)),
                                  Member(KeyTitle, JStr(<<"T">>))>>)),
           Member(KeyAnswers, payload)>>)

\* { formId, formTitle, answers }
FlatBody(payload) ==
    JObj(<<Member(KeyFormId, JStr(<<"F">>)),
           Member(KeyFormTitle, JStr(<<"T">>)),
           Member(KeyAnswers, payload)>>)

\* body carries the payload in one of the three envelopes
IsBodyWith(body, payload) ==
    \/ body = JsonRpcBody(payload)
    \/ body = FormBody(payload)
    \/ body = FlatBody(payload)

\* a request for the registered form arrives in one of the three envelopes
InitHook ==
    /\ version \in Versions
    /\ SendIdle
    /\ ParseOff
    /\ ServiceOff
    /\ \/ \E n \in 0..MaxArrayLen : \E f \in [1..n -> 1..Len(ElementInputs)] :
             IsBodyWith(requestBody, JArr([i \in 1..n |-> ElementInputs[f[i]]]))
       \/ \E k \in 1..Len(OtherInputs) : IsBodyWith(requestBody, OtherInputs[k])
    /\ handed = JUndefined
    /\ hook = "posted"

\* the JSON-RPC branch of the handler, up to await sendDiscordMessage(..., answers)
HandleJsonRpc ==
    /\ hook = "posted"
    /\ IsJsonRpc(requestBody)
    /\ handed' = answersOfJsonRpc(Get(requestBody, KeyParams))
    /\ hook' = "handed"
    /\ UNCHANGED <<version, serviceVars, sendVars, parseVars, requestBody>>

\* the plain POST branch of the handler, up to await sendDiscordMessage(..., answers)
HandlePost ==
    /\ hook = "posted"
    /\ ~IsJsonRpc(requestBody)
    /\ handed' = answersOfPost(requestBody)
    /\ hook' = "handed"
    /\ UNCHANGED <<version, serviceVars, sendVars, parseVars, requestBody>>

NextHook == HandleJsonRpc \/ HandlePost

HookSpec == InitHook /\ [][NextHook]_vars

-----------------------------------------------------------------------------
(* What the claims speak about *)

Sent == pc = "sent"

\* the payload handed to the webhook, its embed fields and its content ('' when the
\* payload has no content key)
Payload == posted[1]

Fields == Payload.embeds[1].fields

HasContent == "content" \in DOMAIN Payload

ContentText == IF HasContent THEN Payload.content ELSE <<>>

Min(a, b) == IF a < b THEN a ELSE b

\* the indices (from 0) of the answers that get an embed field
ShownIndices == {i \in 0..(Min(Len(answers), 20) - 1) : answers[i + 1].text # <<>>}

\* the position among the embed fields of the field of the answer at index i
FieldPosition(i) == Cardinality({j \in ShownIndices : j < i}) + 1

RECURSIVE SetToSeq(_)
SetToSeq(S) == IF S = {} THEN <<>> ELSE <<SetMin(S)>> \o SetToSeq(S \ {SetMin(S)})

\* the identifiers of the tokens of a content, in order: those of the role tokens
\* <@&X> (role = TRUE) or of the user tokens <@X> (role = FALSE)
TokenIds(text, role) ==
    LET starts == {p \in 1..(Len(text) - 2) :
                      text[p] = "<" /\ text[p + 1] = "@" /\ ((text[p + 2] = "&") = role)}
        close(p) == CHOOSE e \in p..Len(text) :
                        text[e] = ">" /\ \A j \in p..(e - 1) : text[j] # ">"
        order == SetToSeq(starts)
    IN  [k \in 1..Len(order) |->
            SubSeq(text, order[k] + (IF role THEN 3 ELSE 2), close(order[k]) - 1)]

PlaceholderField == [name |-> JStr(InfoName), value |-> InfoValue, inline |-> FALSE]

IsNoteField(field) == field.name = JStr(NoteName)

-----------------------------------------------------------------------------
(* C1 *)

\* C1 as stated: every embed has at least one field, and whenever no answer produced
\* a field the embed holds the single placeholder field.
C1_PlaceholderWheneverNoAnswerField ==
    Sent => /\ Len(Fields) >= 1
            /\ (ShownIndices = {} => Fields = <<PlaceholderField>>)

\* C1 amended: every embed has at least one field; when no answer produced a field,
\* the only field is the placeholder for a submission of at most 20 answers and the
\* summary field for a longer one.
C1_AtLeastOneField ==
    Sent => /\ Len(Fields) >= 1
            /\ (ShownIndices = {} /\ Len(answers) <= 20 => Fields = <<PlaceholderField>>)
            /\ (ShownIndices = {} /\ Len(answers) > 20 =>
                    Len(Fields) = 1 /\ IsNoteField(Fields[1]))

\* answers are present, all their texts are empty, and the placeholder was built
C1_Witness ==
    /\ Sent
    /\ Len(answers) \in 1..20
    /\ \A i \in 1..Len(answers) : answers[i].text = <<>>
    /\ Fields = <<PlaceholderField>>

-----------------------------------------------------------------------------
(* C2 *)

\* C2: no embed field value of a posted payload is longer than 1024 characters, also
\* for the answers listed in discord_id_fields.
C2_FieldValuesWithinLimit ==
    Sent => \A k \in 1..Len(Fields) : Len(Fields[k].value) <= 1024

-----------------------------------------------------------------------------
(* C3 *)

\* C3: a submission of more than 20 answers gives at most 21 fields, one per answered
\* question among the first 20 followed by exactly one summary field whose text gives
\* the 20 shown and the total (hence the omitted count); a submission of at most 20
\* answers gives no summary field.
C3_SummaryField ==
    Sent =>
      IF Len(answers) > 20
      THEN /\ Len(Fields) <= 21
           /\ Len(Fields) = Cardinality(ShownIndices) + 1
           /\ IsNoteField(Fields[Len(Fields)])
           /\ \A k \in 1..(Len(Fields) - 1) : ~IsNoteField(Fields[k])
           /\ LET said == NoteShown \o <<"2", "0">> \o NoteOf \o NumToStr(Len(answers))
                          \o NoteQuestions
                  value == Fields[Len(Fields)].value
              IN  Len(value) >= Len(said) /\ SubSeq(value, 1, Len(said)) = said
           /\ questionTitles(formConfig) = <<>> =>
                 \A i \in ShownIndices :
                    Fields[FieldPosition(i)].name = JStr(QuestionPrefix \o NumToStr(i + 1))
      ELSE \A k \in 1..Len(Fields) : ~IsNoteField(Fields[k])

\* more than 20 answers with an answered one among the first 20: data fields and summary
C3_Witness ==
    /\ Sent
    /\ Len(answers) > 20
    /\ Len(Fields) = 21
    /\ IsNoteField(Fields[21])

-----------------------------------------------------------------------------
(* C4 *)

\* the role identifiers the configuration gives for this submission: those of the
\* static mentions and those of the triggered rules, each list in its written order
StaticIdsGiven == IF formConfig.mentions = <<>> THEN <<>> ELSE SplitRoleIds(formConfig.mentions)

ConditionalIdsGiven == ConditionalRoles(conditionalMentions(formConfig), answers)

Range(list) == {list[k] : k \in 1..Len(list)}

\* C4: each role identifier given by the static mentions or a triggered rule appears
\* exactly once among the role tokens of the content, in the order of its first
\* occurrence in the working list (whichever of the two lists comes first in it).
C4_EachRoleOnce ==
    Sent =>
      LET ids == TokenIds(ContentText, TRUE)
      IN  \/ ids = Unique(StaticIdsGiven \o ConditionalIdsGiven)
          \/ ids = Unique(ConditionalIdsGiven \o StaticIdsGiven)

-----------------------------------------------------------------------------
(* C5 *)

\* C5: in the content every role of a triggered conditional rule precedes every
\* static role that is not also a conditional one.
C5_ConditionalBeforeStatic ==
    Sent =>
      LET ids == TokenIds(ContentText, TRUE)
      IN  \A a, b \in 1..Len(ids) :
             /\ ids[a] \in Range(ConditionalIdsGiven)
             /\ ids[b] \in Range(StaticIdsGiven) \ Range(ConditionalIdsGiven)
             => a < b

-----------------------------------------------------------------------------
(* C6 *)

\* the digits of the answer a discord_id_fields entry points at (none when there is
\* no such answer)
DigitsAt(key) ==
    IF ArrayIndex(key) >= 0 /\ ArrayIndex(key) < Len(answers)
    THEN StripNonDigits(answers[ArrayIndex(key) + 1].text)
    ELSE <<>>

\* C6: the user tokens of the content are, in the order of discord_id_fields, the
\* digits of the listed answers that exist and have at least 17 digits (16: left out).
C6_UserTokens ==
    Sent =>
      LET listed == discordIdFields(formConfig)
          passing == SelectSeq(listed, LAMBDA key : Len(DigitsAt(key)) >= 17)
      IN  /\ TokenIds(ContentText, FALSE) = [k \in 1..Len(passing) |-> DigitsAt(passing[k])]
          /\ \A k \in 1..Len(listed) :
                Len(DigitsAt(listed[k])) = 16 =>
                   DigitsAt(listed[k]) \notin Range(TokenIds(ContentText, FALSE))

\* two listed answers, the second listed one of 17 digits and the first of 16: one token
C6_Witness ==
    /\ Sent
    /\ LET listed == discordIdFields(formConfig)
       IN  /\ Len(listed) = 2
           /\ Len(DigitsAt(listed[1])) = 16
           /\ Len(DigitsAt(listed[2])) = 17
           /\ TokenIds(ContentText, FALSE) = <<DigitsAt(listed[2])>>

-----------------------------------------------------------------------------
(* C7 *)

\* C7: for every listed answer that has an embed field, the content carries the user
\* mention <@digits> of that answer exactly when the value of its field is <@digits>.
C7_MentionAndFieldAgree ==
    Sent =>
      \A k \in 1..Len(discordIdFields(formConfig)) :
         LET key == discordIdFields(formConfig)[k]
             i == ArrayIndex(key)
         IN  i \in ShownIndices =>
                ( DigitsAt(key) \in Range(TokenIds(ContentText, FALSE))
                  <=> Fields[FieldPosition(i)].value = <<"<", "@">> \o DigitsAt(key) \o <<">">> )

-----------------------------------------------------------------------------
(* C8 *)

\* some static identifier, some identifier of a triggered rule or some listed answer
\* passes its length check
SomeMentionResolved ==
    \/ \E piece \in Range(Split(formConfig.mentions, ",")) : Len(Trim(piece)) >= 17
    \/ \E r \in 1..Len(conditionalMentions(formConfig)) :
          LET rule == conditionalMentions(formConfig)[r]
          IN  /\ rule.question_index < Len(answers)
              /\ answers[rule.question_index + 1].text # <<>>
              /\ Trim(answers[rule.question_index + 1].text) = rule.answer_value
              /\ \E piece \in Range(Split(rule.role_id, ",")) : Len(Trim(piece)) >= 17
    \/ \E k \in 1..Len(discordIdFields(formConfig)) :
          Len(DigitsAt(discordIdFields(formConfig)[k])) >= 17

\* C8: the payload has a content key exactly when a role or user mention was
\* resolved, and the content is then not the empty string.
C8_ContentKey ==
    Sent => /\ HasContent <=> SomeMentionResolved
            /\ HasContent => Payload.content # <<>>

\* a rule matched but gave no valid identifier, nothing else resolved: no content key
C8_Witness ==
    /\ Sent
    /\ ~HasContent
    /\ \E r \in 1..Len(conditionalMentions(formConfig)) :
          ConditionHolds(conditionalMentions(formConfig)[r], answers)

-----------------------------------------------------------------------------
(* C9 *)

\* the role identifiers and the user identifiers the variant at hand resolved
ResolvedRoles ==
    IF version = "server.js" THEN roleIds(formConfig, answers)
    ELSE conditionalRoles(formConfig, answers) \o staticRoles(formConfig)

ResolvedUsers == discordIds(discordIdFields(formConfig), answers)

\* the tokens of the given roles and users joined by single spaces
TokensJoined(roles, users) ==
    Join([k \in 1..Len(roles) |-> <<"<", "@", "&">> \o roles[k] \o <<">">>]
         \o [k \in 1..Len(users) |-> <<"<", "@">> \o users[k] \o <<">">>],
         <<" ">>)

\* C9: the content is the role tokens followed by the user tokens, consecutive tokens
\* separated by exactly one space, with no leading or trailing space.
C9_ContentLayout ==
    Sent /\ HasContent =>
      /\ Payload.content = TokensJoined(ResolvedRoles, ResolvedUsers)
      /\ Payload.content[1] # " "
      /\ Payload.content[Len(Payload.content)] # " "

\* roles only: the space appended after the role block has been trimmed away
C9_Witness ==
    /\ Sent
    /\ HasContent
    /\ Len(ResolvedRoles) >= 2
    /\ ResolvedUsers = <<>>

-----------------------------------------------------------------------------
(* C10 *)

\* C10: the identifier of every role token and of every user token of the content is
\* a string of at least 17 decimal digits.
C10_IdentifiersAreDigits ==
    Sent =>
      \A id \in Range(TokenIds(ContentText, TRUE)) \cup Range(TokenIds(ContentText, FALSE)) :
         Len(id) >= 17 /\ \A i \in 1..Len(id) : id[i] \in Digit

-----------------------------------------------------------------------------
(* C11 *)

\* C11: no user token <@ID> appears twice in the content, also when discord_id_fields
\* lists an index twice or two listed answers hold the same identifier.
C11_EachUserOnce ==
    Sent =>
      LET ids == TokenIds(ContentText, FALSE)
      IN  \A a, b \in 1..Len(ids) : ids[a] = ids[b] => a = b

-----------------------------------------------------------------------------
(* C12 *)

\* the valid role identifiers a rule holds, as the variant at hand reads its role_id
RuleRoles(rule) ==
    IF version = "server.js" THEN SplitRoleIds(rule.role_id)
    ELSE IF Len(Trim(rule.role_id)) >= 17 THEN <<Trim(rule.role_id)>> ELSE <<>>

\* the answer the rule points at exists and its trimmed text is the rule's value
TrimmedTextEquals(rule) ==
    /\ rule.question_index < Len(answers)
    /\ Trim(answers[rule.question_index + 1].text) = rule.answer_value

\* the role identifiers of the content when exactly the rules at the given positions
\* of conditional_mentions contribute, next to the static ones
RolesWhen(firing) ==
    Range(SplitRoleIds(formConfig.mentions))
    \cup UNION {Range(RuleRoles(conditionalMentions(formConfig)[r])) : r \in firing}

\* C12 as stated: a rule contributes its roles exactly when its answer exists and the
\* trimmed text of the answer equals answer_value.
C12_RuleFiresIffTrimmedTextEquals ==
    Sent => Range(TokenIds(ContentText, TRUE))
            = RolesWhen({r \in 1..Len(conditionalMentions(formConfig)) :
                            TrimmedTextEquals(conditionalMentions(formConfig)[r])})

\* the same with a text that is not empty
NonEmptyTrimmedTextEquals(rule) ==
    /\ TrimmedTextEquals(rule)
    /\ answers[rule.question_index + 1].text # <<>>

\* C12, amended: a rule contributes its roles exactly when its answer exists, has a
\* text that is not empty, and the trimmed text equals answer_value (case-sensitive).
C12_RuleFiresIffNonEmptyTextEquals ==
    Sent => Range(TokenIds(ContentText, TRUE))
            = RolesWhen({r \in 1..Len(conditionalMentions(formConfig)) :
                            NonEmptyTrimmedTextEquals(conditionalMentions(formConfig)[r])})

\* ' Yes ' fires the rule for 'Yes' while the rule for 'yes' on the same answer adds
\* nothing
C12_Witness ==
    /\ Sent
    /\ \E r, q \in 1..Len(conditionalMentions(formConfig)) :
          LET fired == conditionalMentions(formConfig)[r]
              silent == conditionalMentions(formConfig)[q]
          IN  /\ fired.question_index = silent.question_index
              /\ fired.question_index < Len(answers)
              /\ answers[fired.question_index + 1].text = <<" ">> \o Yes \o <<" ">>
              /\ fired.answer_value = Yes
              /\ silent.answer_value = <<"y", "e", "s">>
              /\ Range(RuleRoles(fired)) \subseteq Range(TokenIds(ContentText, TRUE))
              /\ Range(RuleRoles(silent)) \cap Range(TokenIds(ContentText, TRUE)) = {}

-----------------------------------------------------------------------------
(* C13 *)

\* C13: whatever the stored texts of discord_id_fields, conditional_mentions and
\* question_titles are, sendDiscordMessage does not raise because of them: every
\* submission handed to it ends with a payload posted.
C13_NeverRaises == pc # "failed"

-----------------------------------------------------------------------------
(* C20 *)

\* question_titles is stored as a list of {index, title} pairs
PairSchema ==
    /\ IsArray(formConfig.question_titles)
    /\ questionTitles(formConfig) # <<>>
    /\ \A k \in 1..Len(questionTitles(formConfig)) : questionTitles(formConfig)[k].t = "obj"

\* C20: with question_titles in the pair schema, the label of the field of the answer
\* at position i is the title of the pair whose index is i, and the generated label
\* with number i + 1 when there is no such pair, wherever the pair stands in the list.
C20_LabelOfPairIndex ==
    Sent /\ PairSchema =>
      \A i \in ShownIndices :
         LET pairs == {questionTitles(formConfig)[k].v : k \in 1..Len(questionTitles(formConfig))}
             mine == {pair \in pairs : pair.index = i}
         IN  Fields[FieldPosition(i)].name =
                IF mine # {} THEN JStr((CHOOSE pair \in mine : TRUE).title)
                ELSE JStr(QuestionPrefix \o NumToStr(i + 1))

-----------------------------------------------------------------------------
(* What the claims about the normalization speak about *)

\* parseYandexFormAnswers has returned
Returned == step \in {"parsed", "reparsed"}

\* a === b for primitives, and member by member, element by element for the rest
RECURSIVE Same(_, _)
Same(a, b) ==
    /\ a.t = b.t
    /\ CASE a.t \in {"num", "bool", "str"} -> a.v = b.v
         [] a.t = "arr" ->
               /\ Len(a.v) = Len(b.v)
               /\ \A i \in 1..Len(a.v) : Same(a.v[i], b.v[i])
         [] a.t = "object" ->
               /\ Len(a.v) = Len(b.v)
               /\ \A i \in 1..Len(a.v) : a.v[i].k = b.v[i].k /\ Same(a.v[i].v, b.v[i].v)
         [] OTHER -> TRUE

\* the try block of the variant at hand ends in an exception
TryFails(x) ==
    IF version = "server.js" THEN tryBlock(x).t = "thrown" ELSE tryBlockOld(x).t = "thrown"

\* x.key is there
Present(x, key) == Get(x, key).t # "undefined"

-----------------------------------------------------------------------------
(* C14 *)

\* C14: parseYandexFormAnswers never raises: for every input it returns a sequence,
\* and the empty sequence for a value without answers (undefined, null, a number, a
\* boolean) and when its parsing ran into an exception.
C14_AlwaysReturnsSequence ==
    Returned =>
      /\ result.t = "arr"
      /\ argument.t \in {"undefined", "null", "num", "bool"} => Len(result.v) = 0
      /\ TryFails(argument) => Len(result.v) = 0

\* an exception inside the function (an array with a null element, a list-valued
\* field with a null item, a string that JSON.parse rejects) ended in the empty
\* sequence
C14_Witness ==
    /\ Returned
    /\ TryFails(argument)
    /\ result.t = "arr"
    /\ Len(result.v) = 0

-----------------------------------------------------------------------------
(* C15 *)

\* the elements of an array that are objects, in order
WellFormed(items) == SelectSeq(items, LAMBDA e : e.t = "object")

\* C15: when some entries of a submission are malformed (an element of the answers
\* array that is null or not an object, a null item in a list-valued field of the
\* provider's envelope), the answers of the well-formed entries are still returned,
\* in order, and only the malformed entries are left out.
C15_MalformedEntriesOmitted ==
    Returned =>
      /\ argument.t = "arr" =>
            /\ result.t = "arr"
            /\ Len(result.v) = Len(WellFormed(argument.v))
            /\ \A k \in 1..Len(result.v) :
                  Same(Get(result.v[k], KeyText),
                       Get(canonicalAnswer(WellFormed(argument.v)[k], k - 1), KeyText))
      /\ (/\ Truthy(argument)
          /\ argument.t = "object"
          /\ Truthy(Get(argument, KeyAnswer))
          /\ Get(Get(argument, KeyAnswer), KeyData).t = "object")
         => result.t = "arr" /\ Len(result.v) >= 1

-----------------------------------------------------------------------------
(* C16 *)

\* an array of objects that have a question_id and a text
ArrayOfAnswers(x) ==
    /\ x.t = "arr"
    /\ \A i \in 1..Len(x.v) :
          x.v[i].t = "object" /\ Present(x.v[i], KeyQuestionId) /\ Present(x.v[i], KeyText)

\* C16: for an array x of {question_id, text} objects, normalizing the JSON text of
\* the normalized x gives the normalized x again, element by element, in order.
C16_RoundTrip ==
    step = "reparsed" /\ ArrayOfAnswers(argument) => Same(reparsed, result)

\* two answers went through the round trip, one with a quote and a backslash in its
\* text
C16_Witness ==
    /\ step = "reparsed"
    /\ ArrayOfAnswers(argument)
    /\ Len(argument.v) = 2
    /\ \E i \in 1..2 : Get(argument.v[i], KeyText).t = "str"
                       /\ "\"" \in Range(Get(argument.v[i], KeyText).v)
    /\ Len(reparsed.v) = 2

-----------------------------------------------------------------------------
(* C17 *)

\* the text the claim gives to an element: the string form of its text member, or of
\* its value or answer member when it has no text
TextOfFirstPresent(e) ==
    IF Present(e, KeyText) THEN String(Get(e, KeyText))
    ELSE IF Present(e, KeyValue) THEN String(Get(e, KeyValue))
    ELSE IF Present(e, KeyAnswer) THEN String(Get(e, KeyAnswer))
    ELSE <<>>

\* C17: for an array of objects the result has one answer per element, in order; its
\* text is the string form of the element's text (of its value or answer when the text
\* is absent), a present 0 or false giving "0" or "false"; its question_id is the
\* element's own, or "q" + index when absent.
C17_OneAnswerPerElement ==
    /\ Returned
    /\ argument.t = "arr"
    /\ \A i \in 1..Len(argument.v) : argument.v[i].t = "object"
    => /\ result.t = "arr"
       /\ Len(result.v) = Len(argument.v)
       /\ \A i \in 1..Len(argument.v) :
             /\ Same(Get(result.v[i], KeyText), JStr(TextOfFirstPresent(argument.v[i])))
             /\ Same(Get(result.v[i], KeyQuestionId),
                     IF Present(argument.v[i], KeyQuestionId)
                     THEN Get(argument.v[i], KeyQuestionId)
                     ELSE JStr(<<"q">> \o NumToStr(i - 1)))

-----------------------------------------------------------------------------
(* C18 *)

\* C18: a string is parsed as JSON and the parsed value is normalized; a string that
\* is not valid JSON gives exactly one answer, with the raw string as its text and
\* "q0" as its id.
C18_StringInput ==
    Returned /\ argument.t = "str" =>
      IF JSONparse(argument.v).ok
      THEN Same(result, Normalized(JSONparse(argument.v).val))
      ELSE Same(result, JArr(<<Answer(JStr(<<"q", "0">>), argument.v)>>))

-----------------------------------------------------------------------------
(* C19 *)

\* the answers member a request body carries
PayloadOf(body) ==
    IF IsJsonRpc(body) THEN Get(Get(body, KeyParams), KeyAnswers) ELSE Get(body, KeyAnswers)

\* C19: in each of the three envelopes the answers payload, be it an array, an object
\* or a JSON string, reaches sendDiscordMessage as the sequence parseYandexFormAnswers
\* makes of it: the envelope does not change the answers, and no string or other
\* non-array value is handed over as it came.
C19_SameAnswersInEveryEnvelope ==
    hook = "handed" =>
      /\ handed.t = "arr"
      /\ Same(handed, Normalized(PayloadOf(requestBody)))

-----------------------------------------------------------------------------
(* ColorSpec: the color column of a form and the color of its embed *)

\* the longest color text stored in the column
MaxColorLen == 7

\* the characters of the color texts: a hexadecimal digit and a letter that is none
ColorChars == {"f", "z"}

\* the values of config.color in the body of PUT /admin/forms/:formId/config , which
\* stores any text it is given: with and without the leading '#', of every length
ColorInputs ==
    LET digits == UNION {[1..n -> ColorChars] : n \in 0..MaxColorLen}
    IN  digits \cup {<<"#">> \o d : d \in digits}

InitColor ==
    /\ version \in Versions
    /\ SendIdle
    /\ ParseOff
    /\ HookOff
    /\ ServiceOff

\* PUT /admin/forms/:formId/config : UPDATE forms SET ... color = ? with config.color
PutColor ==
    /\ \E c \in ColorInputs : colorColumn' = c
    /\ embedColor' = <<>>
    /\ UNCHANGED <<version, sendVars, parseVars, hookVars, adminVars, dbVars, relayVars>>

\* sendDiscordMessage builds the embed of a submission: color: parseInt(..., 16)
BuildEmbed ==
    /\ embedColor = <<>>
    /\ embedColor' = <<embedHead([RegisteredForm EXCEPT !.color = colorColumn],
                                 [title |-> <<>>]).color>>
    /\ UNCHANGED <<version, sendVars, parseVars, hookVars, adminVars, dbVars, relayVars, colorColumn>>

NextColor == PutColor \/ BuildEmbed

ColorSpec == InitColor /\ [][NextColor]_vars

\* #RRGGBB : a '#' and six hexadecimal digits
IsRRGGBB(c) ==
    /\ Len(c) = 7
    /\ c[1] = "#"
    /\ \A i \in 2..7 : HexVal(c[i]) >= 0

\* the number six hexadecimal digits stand for
ValueOfRRGGBB(c) ==
    LET val[k \in 1..7] == IF k = 1 THEN 0 ELSE 16 * val[k - 1] + HexVal(c[k])
    IN  val[7]

\* C21: for every value of config.color the color of the embed is an integer in
\* 0..16777215: a well-formed #RRGGBB text gives its numeric value, and an absent or
\* invalid color (empty, not hexadecimal, of another form) gives 5793266, the value
\* of the default #5865f2, never a non-number.
C21_ColorIsInRangeOrDefault ==
    embedColor # <<>> =>
        /\ ~embedColor[1].nan
        /\ embedColor[1].v \in 0..16777215
        /\ embedColor[1].v = IF IsRRGGBB(colorColumn) THEN ValueOfRRGGBB(colorColumn)
                             ELSE 5793266

-----------------------------------------------------------------------------
(* RelaySpec: concurrent requests to POST /webhook/yandex-form over the database *)

\* 'https://discord.com/api/webhooks/'
WebhookPrefix ==
    <<"h", "t", "t", "p", "s", ":", "/", "/", "d", "i", "s", "c", "o", "r", "d", ".",
      "c", "o", "m", "/", "a", "p", "i", "/", "w", "e", "b", "h", "o", "o", "k", "s", "/">>

\* s.startsWith(prefix)
StartsWith(s, prefix) ==
    /\ Len(s) >= Len(prefix)
    /\ SubSeq(s, 1, Len(prefix)) = prefix

\* isValidWebhookUrl(url) for a text: url && url.startsWith('https://discord.com/api/webhooks/')
isValidWebhookUrl(url) ==
    /\ url # <<>>
    /\ StartsWith(url, WebhookPrefix)

\* the identifiers of forms
F1 == <<"F", "1">>
F2 == <<"F", "2">>
F3 == <<"F", "3">>

\* webhook URLs of Discord
UrlOne == WebhookPrefix \o <<"1", "/", "a">>
UrlTwo == WebhookPrefix \o <<"2", "/", "b">>

\* the row INSERT INTO forms (form_id, form_name, webhook_url) VALUES (?, ?, ?) makes,
\* the other columns taking their defaults
FormRow(formId, formName, url) ==
    [form_id |-> formId, form_name |-> formName, webhook_url |-> url,
     title |-> <<>>, description |-> <<>>, color |-> DefaultColor, footer |-> DefaultFooter,
     mentions |-> <<>>,
     question_titles |-> JsonText(<<>>),
     discord_id_fields |-> JsonText(<<JStr(<<"0">>)>>),
     conditional_mentions |-> JsonText(<<>>)]

\* db.get('SELECT ... FROM forms WHERE form_id = ?', [formId]) : the row, if there is one
SelectForm(rows, formId) ==
    LET hits == {i \in 1..Len(rows) : rows[i].form_id = formId}
    IN  IF hits = {} THEN <<>> ELSE <<rows[SetMin(hits)]>>

\* INSERT INTO logs (form_id, status, message) VALUES (?, ?, ?) once it has run
dbRunInsertLog_DeletesForm(db, entry) ==
    LET kept == {i \in 1..Len(db.forms) : db.forms[i].form_id # entry.form_id}
        at_(k) == CHOOSE i \in kept : Cardinality({j \in kept : j < i}) = k - 1
    IN  [forms |-> [k \in 1..Cardinality(kept) |-> db.forms[at_(k)]],
         logs |-> Append(db.logs, entry)]

dbRunInsertLog(db, entry) ==
    [db EXCEPT !.logs = Append(@, entry)]

\* the scope that holds formId, formTitle, answers and error of a call of the handler:
\* they are declared with let in the handler, one set for each call
ScopeOf_Module(r) == "r1"

ScopeOf(r) == r

\* the forms registered when the requests arrive: one as registered, one with roles
\* to mention
RelayForms ==
    <<FormRow(F1, <<"F">>, UrlOne),
      [FormRow(F2, <<"G">>, UrlTwo) EXCEPT !.mentions = ID_A]>>

\* the form identifiers of the requests: registered ones, one that is not, and none
RequestedIds == {F1, F2, F3, <<>>}

\* the form titles and answers of the requests
SubmissionInputs ==
    <<[formTitle |-> <<>>, answers |-> Submission(<<ID_B>>, FillerText, 0)],
      [formTitle |-> <<"T">>, answers |-> Submission(<<Yes, ID_C>>, FillerText, 0)]>>

\* the envelopes of a request body: JSON-RPC with and without params, and plain
Envelopes == {"jsonrpc", "jsonrpc_noparams", "post"}

InitRelay ==
    /\ version \in Versions
    /\ SendIdle
    /\ ParseOff
    /\ HookOff
    /\ ColorOff
    /\ AdminOff
    /\ forms = RelayForms
    /\ logs = <<>>
    /\ RelayOff

\* what sendDiscordMessage throws before it posts: 'Неверная конфигурация формы' and
\* 'Неверный URL вебхука Discord' (server.js only), and the TypeErrors of its body
ThrowsBeforePost(fc, ans) ==
    \/ version = "server.js" /\ ~isValidWebhookUrl(fc.webhook_url)
    \/ Raises(fc, ans)

\* the payload sendDiscordMessage hands to axios.post
relayPayload(fc, formData, ans) ==
    IF version = "server.js" THEN sendDiscordMessage(fc, formData, ans)
    ELSE sendDiscordMessageOld(fc, formData, ans)

\* res.status(http).json(...) and res.json(...) : the status, the JSON-RPC error code
\* (0 when there is none) and the kind of message
Response(envelope, http, rpc, message) ==
    IF envelope = "jsonrpc" THEN [http |-> 200, rpc |-> rpc, message |-> message]
    ELSE [http |-> http, rpc |-> 0, message |-> message]

\* the synchronous part of the handler: the body is taken apart and db.get is called,
\* or the request is refused for want of a formId (after await logRequest), or
\* params.formId throws and the outer catch answers 500, its logRequest not awaited
Arrive(r) ==
    /\ stage[r] = "none"
    /\ \E envelope \in Envelopes, id \in RequestedIds, k \in 1..Len(SubmissionInputs) :
          /\ envelope = "jsonrpc_noparams" => id = <<>> /\ k = 1
          /\ request' = [request EXCEPT ![r] =
                            [envelope |-> envelope, formId |-> id,
                             formTitle |-> SubmissionInputs[k].formTitle,
                             answers |-> SubmissionInputs[k].answers]]
          /\ IF envelope = "jsonrpc_noparams"
             THEN /\ stage' = [stage EXCEPT ![r] = "answered"]
                  /\ responses' = [responses EXCEPT ![r] =
                                      Append(@, Response("post", 500, 0, "internal"))]
                  /\ \E written \in BOOLEAN :
                        logs' = IF written
                                THEN dbRunInsertLog([forms |-> forms, logs |-> logs],
                                         [form_id |-> <<"U", "N", "K", "N", "O", "W", "N">>,
                                          status |-> "ERROR"]).logs
                                ELSE logs
                  /\ UNCHANGED locals
             ELSE /\ locals' = [locals EXCEPT ![ScopeOf(r)] =
                                   [formId |-> id,
                                    formTitle |-> SubmissionInputs[k].formTitle,
                                    answers |-> SubmissionInputs[k].answers,
                                    err |-> FALSE, formConfig |-> <<>>, error |-> "none"]]
                  /\ stage' = [stage EXCEPT ![r] =
                               IF envelope = "post" /\ id = <<>> THEN "log400" ELSE "lookup"]
                  /\ UNCHANGED <<responses, logs>>
    /\ UNCHANGED <<version, sendVars, parseVars, hookVars, adminVars, colorVars, forms, outbox>>

\* the callback of db.get up to its first await: a database error, no row, or the row,
\* with which sendDiscordMessage runs up to axios.post or throws
Lookup(r) ==
    /\ stage[r] = "lookup"
    /\ \E answered \in BOOLEAN :
          LET l == locals[ScopeOf(r)]
              found == SelectForm(forms, l.formId)
          IN  IF ~answered
              THEN /\ stage' = [stage EXCEPT ![r] = "logError"]
                   /\ locals' = [locals EXCEPT ![ScopeOf(r)].err = TRUE]
                   /\ UNCHANGED outbox
              ELSE IF found = <<>>
              THEN /\ stage' = [stage EXCEPT ![r] = "logNotFound"]
                   /\ UNCHANGED <<outbox, locals>>
              ELSE LET formConfig_ == found[1]
                       formData == [title |-> IF l.formTitle # <<>> THEN l.formTitle
                                              ELSE formConfig_.form_name]
                   IN  IF ThrowsBeforePost(formConfig_, l.answers)
                       THEN /\ stage' = [stage EXCEPT ![r] = "logDiscordError"]
                            /\ locals' = [locals EXCEPT ![ScopeOf(r)].formConfig = found,
                                                         ![ScopeOf(r)].error = "relay"]
                            /\ UNCHANGED outbox
                       ELSE /\ stage' = [stage EXCEPT ![r] = "posting"]
                            /\ outbox' = [outbox EXCEPT ![r] =
                                  Append(@, [url |-> formConfig_.webhook_url,
                                             payload |-> relayPayload(formConfig_, formData, l.answers),
                                             reply |-> "pending"])]
                            /\ locals' = [locals EXCEPT ![ScopeOf(r)].formConfig = found]
    /\ UNCHANGED <<version, sendVars, parseVars, hookVars, adminVars, colorVars, dbVars, request, responses>>

\* axios.post settles: Discord accepted the message and logRequest(formId, 'SENT') is
\* awaited, or the post failed and sendDiscordMessage throws 'Discord API error'
Discord(r) ==
    /\ stage[r] = "posting"
    /\ \E accepted \in BOOLEAN :
          /\ outbox' = [outbox EXCEPT ![r][1].reply = IF accepted THEN "ok" ELSE "error"]
          /\ stage' = [stage EXCEPT ![r] = IF accepted THEN "logSent" ELSE "logDiscordError"]
          /\ locals' = IF accepted THEN locals
                       ELSE [locals EXCEPT ![ScopeOf(r)].error = "relay"]
    /\ UNCHANGED <<version, sendVars, parseVars, hookVars, adminVars, colorVars, dbVars, request, responses>>

\* the status logRequest is awaited with at each await of the handler
LogStatus ==
    [log400 |-> "ERROR", logError |-> "ERROR", logNotFound |-> "NOT_FOUND",
     logSent |-> "SENT", logDiscordError |-> "DISCORD_ERROR"]

\* an awaited logRequest settles. Written: the handler goes on to its response.
\* Rejected: before db.get the outer catch answers 500; after logRequest(..., 'SENT')
\* the catch of the delivery takes the rejection; elsewhere in the callback of db.get
\* nothing catches it and the call ends without a response
LogSettled(r) ==
    /\ stage[r] \in DOMAIN LogStatus
    /\ \E written \in BOOLEAN :
          LET l == locals[ScopeOf(r)]
              envelope == request[r].envelope
              entry == [form_id |-> IF stage[r] = "log400"
                                    THEN <<"U", "N", "K", "N", "O", "W", "N">> ELSE l.formId,
                        status |-> LogStatus[stage[r]]]
              db == IF written THEN dbRunInsertLog([forms |-> forms, logs |-> logs], entry)
                    ELSE [forms |-> forms, logs |-> logs]
          IN  /\ forms' = db.forms
              /\ IF written
                 THEN /\ logs' = db.logs
                      /\ stage' = [stage EXCEPT ![r] = "answered"]
                      /\ responses' = [responses EXCEPT ![r] = Append(@,
                            CASE stage[r] = "log400" -> Response(envelope, 400, 0, "no_form_id")
                              [] stage[r] = "logError" -> Response(envelope, 500, -32603, "internal")
                              [] stage[r] = "logNotFound" -> Response(envelope, 404, -32601, "not_registered")
                              [] stage[r] = "logSent" -> Response(envelope, 200, 0, "success")
                              [] stage[r] = "logDiscordError" -> Response(envelope, 500, -32000, "discord_error"))]
                      /\ UNCHANGED locals
                 ELSE CASE stage[r] = "log400" ->
                             /\ stage' = [stage EXCEPT ![r] = "answered"]
                             /\ responses' = [responses EXCEPT ![r] =
                                                 Append(@, Response(envelope, 500, 0, "internal"))]
                             /\ \E again \in BOOLEAN :
                                   logs' = IF again THEN Append(db.logs, entry) ELSE db.logs
                             /\ UNCHANGED locals
                        [] stage[r] = "logSent" ->
                             /\ stage' = [stage EXCEPT ![r] = "logDiscordError"]
                             /\ locals' = [locals EXCEPT ![ScopeOf(r)].error = "log"]
                             /\ logs' = db.logs
                             /\ UNCHANGED responses
                        [] OTHER ->
                             /\ stage' = [stage EXCEPT ![r] = "rejected"]
                             /\ logs' = db.logs
                             /\ UNCHANGED <<responses, locals>>
    /\ UNCHANGED <<version, sendVars, parseVars, hookVars, adminVars, colorVars, request, outbox>>

NextRelay == \E r \in Requests : Arrive(r) \/ Lookup(r) \/ Discord(r) \/ LogSettled(r)

RelaySpec == InitRelay /\ [][NextRelay]_vars

\* every response and every unhandled rejection ends a call of the handler
Finished == {"answered", "rejected"}

\* Discord accepted the message of request r
Delivered(r) ==
    /\ outbox[r] # <<>>
    /\ outbox[r][1].reply = "ok"

\* C22: a failing write to the log does not abort or alter a relay: when the delivery
\* to Discord succeeded the submitter receives the success response, whatever became
\* of the log writes, and so a failure to log is never reported as a failure of the
\* delivery.
C22_DeliveredIsAnsweredSuccess ==
    \A r \in Requests :
        (stage[r] \in Finished /\ Delivered(r)) =>
            /\ responses[r] # <<>>
            /\ responses[r][1].message = "success"

\* the request names a form, the lookup has run without error and found no row
NotRegistered(r) ==
    /\ request[r].envelope \in {"jsonrpc", "post"}
    /\ request[r].formId # <<>>
    /\ stage[r] \notin {"none", "lookup"}
    /\ ~locals[ScopeOf(r)].err
    /\ SelectForm(forms, request[r].formId) = <<>>

\* C23: for a submission whose formId has no registered form sendDiscordMessage is not
\* called and nothing is posted; the request is logged with status NOT_FOUND and
\* answered with an error, HTTP 404 or the JSON-RPC error -32601.
C23_NotRegisteredIsLoggedAndAnswered ==
    \A r \in Requests :
        NotRegistered(r) =>
            /\ outbox[r] = <<>>
            /\ stage[r] \in Finished =>
                  /\ \E i \in 1..Len(logs) :
                        logs[i].form_id = request[r].formId /\ logs[i].status = "NOT_FOUND"
                  /\ Len(responses[r]) = 1
                  /\ responses[r][1].http = 404 \/ responses[r][1].rpc = -32601

\* what a run of the request alone posts: the payload built from the row of its own
\* form and from its own title and answers, to the webhook of that row
OwnPost(r) ==
    LET row == SelectForm(forms, request[r].formId)[1]
        formData == [title |-> IF request[r].formTitle # <<>> THEN request[r].formTitle
                               ELSE row.form_name]
    IN  [url |-> row.webhook_url,
         payload |-> relayPayload(row, formData, request[r].answers)]

\* C24: requests in progress at the same time are isolated: in every interleaving the
\* payload posted for a request is the one built from the configuration of its own form
\* and from its own answers, whatever the other requests carry.
C24_PayloadOfOwnRequest ==
    \A r \in Requests :
        \A i \in 1..Len(outbox[r]) :
            /\ SelectForm(forms, request[r].formId) # <<>>
            /\ outbox[r][i].url = OwnPost(r).url
            /\ outbox[r][i].payload = OwnPost(r).payload

\* two requests for different forms with different answers, both posted to Discord and
\* neither answered yet
C24_Witness ==
    /\ stage["r1"] = "posting"
    /\ stage["r2"] = "posting"
    /\ request["r1"].formId # request["r2"].formId
    /\ request["r1"].answers # request["r2"].answers
    /\ outbox["r1"][1].payload # outbox["r2"][1].payload

\* C25: the processing of submissions only reads the forms: in every step of every
\* request, found or not, delivered or failed, the rows of the forms stay as they are
\* and the log only gets entries added at its end.
C25_FormsReadOnly ==
    [][/\ forms' = forms
       /\ Len(logs') >= Len(logs)
       /\ SubSeq(logs', 1, Len(logs)) = logs]_vars

\* a delivered and a refused submission, both answered and both logged
C25_Witness ==
    /\ stage["r1"] = "answered"
    /\ stage["r2"] = "answered"
    /\ Delivered("r1")
    /\ NotRegistered("r2")
    /\ Len(logs) = 2
    /\ forms = RelayForms

\* every step of a request in progress is taken in the end: the database and Discord
\* answer, with success or with an error
RelayLiveSpec ==
    /\ RelaySpec
    /\ \A r \in Requests : WF_vars(Lookup(r) \/ Discord(r) \/ LogSettled(r))

\* C27: every request to POST /webhook/yandex-form gets exactly one response in the
\* end, whatever the outcome of the lookup, of the delivery and of each log write: never
\* two, and never none.
C27_ExactlyOneResponse ==
    \A r \in Requests :
        /\ [](Len(responses[r]) <= 1)
        /\ (stage[r] # "none") ~> (Len(responses[r]) = 1)

-----------------------------------------------------------------------------
(* AdminSpec: the administrator's routes, the backups and the posts to webhooks *)

\* the number of requests that get past requireAuth or come in on the webhook
MaxHandled == 2

\* the variables the administrator's routes leave alone
nonAdminVars == <<version, sendVars, parseVars, hookVars, colorVars, relayVars>>

SYSTEM == <<"S", "Y", "S", "T", "E", "M">>

\* a URL that is not one of Discord's webhooks
OtherUrl ==
    <<"h", "t", "t", "p", "s", ":", "/", "/", "e", "x", "a", "m", "p", "l", "e", ".",
      "c", "o", "m", "/", "h", "o", "o", "k">>

\* bcrypt.hash(password) and bcrypt.compare(password, hash)
bcryptHash(password) == <<"$", "2", "b", "$">> \o password

bcryptCompare(password, hash) == bcryptHash(password) = hash

\* the users table: INSERT OR IGNORE INTO users ... ['admin', hash] of the default password
AdminName == <<"a", "d", "m", "i", "n">>

AdminPassword == <<"p", "w">>

users == <<[username |-> AdminName, password_hash |-> bcryptHash(AdminPassword)]>>

\* requireAuth : req.session && req.session.authenticated
requireAuth_Open(sess) == TRUE

requireAuth(sess) == sess.authenticated

\* INSERT INTO forms ... under form_id TEXT UNIQUE NOT NULL : the rows afterwards, and
\* whether the constraint failed
InsertForm(rows, row) ==
    IF \E i \in 1..Len(rows) : rows[i].form_id = row.form_id
    THEN [err |-> TRUE, rows |-> rows]
    ELSE [err |-> FALSE, rows |-> Append(rows, row)]

\* the rows without the i-th
Without(rows, i) == SubSeq(rows, 1, i - 1) \o SubSeq(rows, i + 1, Len(rows))

\* the rows in the opposite order (ORDER BY timestamp DESC)
Reversed(rows) == [k \in 1..Len(rows) |-> rows[Len(rows) + 1 - k]]

\* the logs after a logRequest that nobody awaits: written, or lost when the INSERT
\* fails
MayLog(rows, ls, entry) ==
    {ls, dbRunInsertLog([forms |-> rows, logs |-> ls], entry).logs}

\* await logRequest(...) followed by the response, in an async callback without a
\* catch: the entry and the response, or the rejection and no response (status 0)
Awaited(rows, ls, entry, http) ==
    {[logs |-> ls, reply |-> 0],
     [logs |-> dbRunInsertLog([forms |-> rows, logs |-> ls], entry).logs, reply |-> http]}

\* try { ...; await logRequest(first); res.json() } catch { await logRequest(second);
\* res.status(500) } : the first entry and the response, or the second entry and the
\* status 500, or no response
AwaitedInTry(rows, ls, first, http, second) ==
    Awaited(rows, ls, second, 500)
    \cup {[logs |-> dbRunInsertLog([forms |-> rows, logs |-> ls], first).logs,
           reply |-> http]}

\* the values of formId and formName in the body of a registration
FormIdInputs == {F1, F2, <<>>}

FormNameInputs == {<<"F">>, <<>>}

\* the values of discordWebhookUrl : a webhook of Discord, another URL, none, a number
WebhookUrlInputs == <<JStr(UrlOne), JStr(OtherUrl), JUndefined, JNum(5)>>

\* the settings PUT /admin/forms/:formId/config stores
ConfigInputs ==
    { [title |-> <<"T">>, mentions |-> ID_A] }

\* the answers of the test message
TestAnswers == Submission(<<ID_A, ID_B>>, FillerText, 0)

\* the backup files an administrator uploads: the forms and the logs they list
ImportFiles ==
    <<[forms |-> <<FormRow(F1, <<"F">>, OtherUrl)>>, logs |-> <<>>],
      [forms |-> <<FormRow(F2, <<"G">>, UrlTwo), FormRow(F1, <<"F">>, UrlOne)>>, logs |-> <<>>]>>

\* the rows of forms after DELETE FROM forms and the INSERT of each form of a backup
LoadForms(list) ==
    LET loaded[k \in 0..Len(list)] ==
            IF k = 0 THEN <<>> ELSE InsertForm(loaded[k - 1], list[k]).rows
    IN  loaded[Len(list)]

InitAdmin ==
    /\ version \in Versions
    /\ SendIdle
    /\ ParseOff
    /\ HookOff
    /\ ServiceOff

\* no broadcast is between two of its awaits
Quiet == broadcast.stage \in {"idle", "done"}

\* res.status(401) of requireAuth : nothing else happens
Refused ==
    /\ reply' = 401
    /\ targets' = {}
    /\ broadcast' = NoBroadcast
    /\ UNCHANGED <<session, forms, logs, backups>>

\* a response of a route that changes nothing
Answered(http) ==
    /\ reply' = http
    /\ targets' = {}
    /\ broadcast' = NoBroadcast
    /\ UNCHANGED <<session, forms, logs, backups>>

\* the count of the requests handled goes up for a request that gets past requireAuth
Counted ==
    /\ requireAuth(session) => handled < MaxHandled
    /\ handled' = IF requireAuth(session) THEN handled + 1 ELSE handled

\* POST /admin/login
Login(username, password) ==
    /\ Quiet
    /\ LET found == {i \in 1..Len(users) : users[i].username = username}
       IN  IF found # {} /\ bcryptCompare(password, users[SetMin(found)].password_hash)
           THEN /\ session' = [authenticated |-> TRUE]
                /\ reply' = 200
           ELSE /\ session' = session
                /\ reply' = 401
    /\ targets' = {}
    /\ broadcast' = NoBroadcast
    /\ UNCHANGED <<nonAdminVars, forms, logs, backups, handled>>

\* POST /admin/logout : req.session.destroy
Logout ==
    /\ Quiet
    /\ session' = [authenticated |-> FALSE]
    /\ reply' = 200
    /\ targets' = {}
    /\ broadcast' = NoBroadcast
    /\ UNCHANGED <<nonAdminVars, forms, logs, backups, handled>>

\* GET /admin/forms
GetForms ==
    /\ Quiet
    /\ IF requireAuth(session) THEN Answered(200) ELSE Refused
    /\ Counted
    /\ UNCHANGED nonAdminVars

\* POST /admin/register-form
RegisterForm(formId, formName, discordWebhookUrl) ==
    /\ Quiet
    /\ IF ~requireAuth(session) THEN Refused
       ELSE IF formId = <<>> \/ formName = <<>> \/ ~Truthy(discordWebhookUrl)
       THEN Answered(400)
       ELSE IF discordWebhookUrl.t # "str"
       THEN Answered(500)
       ELSE IF ~isValidWebhookUrl(discordWebhookUrl.v)
       THEN Answered(400)
       ELSE LET done == InsertForm(forms, FormRow(formId, formName, discordWebhookUrl.v))
            IN  IF done.err
                THEN Answered(400)
                ELSE /\ forms' = done.rows
                     /\ logs' \in MayLog(done.rows, logs, [form_id |-> formId, status |-> "REGISTERED"])
                     /\ reply' = 200
                     /\ targets' = {}
                     /\ broadcast' = NoBroadcast
                     /\ UNCHANGED <<session, backups>>
    /\ Counted
    /\ UNCHANGED nonAdminVars

\* PUT /admin/forms/:formId/config
PutConfig(formId, config) ==
    /\ Quiet
    /\ IF ~requireAuth(session) THEN Refused
       ELSE IF SelectForm(forms, formId) = <<>>
       THEN Answered(404)
       ELSE /\ forms' = [i \in 1..Len(forms) |->
                            IF forms[i].form_id = formId
                            THEN [forms[i] EXCEPT !.title = config.title,
                                                  !.mentions = config.mentions]
                            ELSE forms[i]]
            /\ logs' \in MayLog(forms', logs, [form_id |-> formId, status |-> "CONFIG_UPDATED"])
            /\ reply' = 200
            /\ targets' = {}
            /\ broadcast' = NoBroadcast
            /\ UNCHANGED <<session, backups>>
    /\ Counted
    /\ UNCHANGED nonAdminVars

\* DELETE /admin/forms/:formId
DeleteForm(formId) ==
    /\ Quiet
    /\ IF ~requireAuth(session) THEN Refused
       ELSE IF SelectForm(forms, formId) = <<>>
       THEN Answered(404)
       ELSE /\ forms' = Without(forms, SetMin({i \in 1..Len(forms) : forms[i].form_id = formId}))
            /\ logs' \in MayLog(forms', logs, [form_id |-> formId, status |-> "DELETED"])
            /\ reply' = 200
            /\ targets' = {}
            /\ broadcast' = NoBroadcast
            /\ UNCHANGED <<session, backups>>
    /\ Counted
    /\ UNCHANGED nonAdminVars

\* DELETE /admin/logs
ClearLogs ==
    /\ Quiet
    /\ IF ~requireAuth(session) THEN Refused
       ELSE /\ logs' \in MayLog(forms, <<>>, [form_id |-> SYSTEM, status |-> "LOGS_CLEARED"])
            /\ reply' = 200
            /\ targets' = {}
            /\ broadcast' = NoBroadcast
            /\ UNCHANGED <<session, forms, backups>>
    /\ Counted
    /\ UNCHANGED nonAdminVars

\* POST /admin/test-webhook/:formId
TestWebhook(formId) ==
    /\ Quiet
    /\ IF ~requireAuth(session) THEN Refused
       ELSE IF SelectForm(forms, formId) = <<>>
       THEN Answered(404)
       ELSE LET formConfig_ == SelectForm(forms, formId)[1]
            IN  /\ \E accepted \in BOOLEAN :
                      IF ThrowsBeforePost(formConfig_, TestAnswers)
                      THEN /\ targets' = {}
                           /\ reply' = 500
                           /\ logs' \in MayLog(forms, logs, [form_id |-> formId, status |-> "TEST_ERROR"])
                      ELSE /\ targets' = {formConfig_.webhook_url}
                           /\ reply' = IF accepted THEN 200 ELSE 500
                           /\ logs' \in MayLog(forms, logs,
                                  [form_id |-> formId,
                                   status |-> IF accepted THEN "TEST" ELSE "TEST_ERROR"])
                /\ broadcast' = NoBroadcast
                /\ UNCHANGED <<session, forms, backups>>
    /\ Counted
    /\ UNCHANGED nonAdminVars

\* POST /webhook/yandex-form for a form, from its arrival to its response
Submit(formId) ==
    /\ Quiet
    /\ LET found == SelectForm(forms, formId)
           notFound == [form_id |-> formId, status |-> "NOT_FOUND"]
           sent == [form_id |-> formId, status |-> "SENT"]
           discordError == [form_id |-> formId, status |-> "DISCORD_ERROR"]
       IN  \E accepted \in BOOLEAN :
              \E end \in IF found = <<>> THEN Awaited(forms, logs, notFound, 404)
                         ELSE IF ThrowsBeforePost(found[1], TestAnswers) \/ ~accepted
                         THEN Awaited(forms, logs, discordError, 500)
                         ELSE AwaitedInTry(forms, logs, sent, 200, discordError) :
                 /\ logs' = end.logs
                 /\ reply' = end.reply
                 /\ targets' = IF found = <<>> \/ ThrowsBeforePost(found[1], TestAnswers)
                               THEN {} ELSE {found[1].webhook_url}
    /\ broadcast' = NoBroadcast
    /\ handled < MaxHandled
    /\ handled' = handled + 1
    /\ UNCHANGED <<nonAdminVars, session, forms, backups>>

\* POST /admin/backup/import (server.js) : DELETE FROM forms, DELETE FROM logs, the rows
\* of the file inserted as they are, then await logRequest and the response
ImportBackup(k) ==
    /\ Quiet
    /\ version = "server.js"
    /\ IF ~requireAuth(session) THEN Refused
       ELSE LET rows == LoadForms(ImportFiles[k].forms)
            IN  \E end \in Awaited(rows, ImportFiles[k].logs,
                                   [form_id |-> SYSTEM, status |-> "BACKUP_IMPORT"], 200) :
                   /\ forms' = rows
                   /\ logs' = end.logs
                   /\ reply' = end.reply
                   /\ targets' = {}
                   /\ broadcast' = NoBroadcast
                   /\ UNCHANGED <<session, backups>>
    /\ Counted
    /\ UNCHANGED nonAdminVars

\* POST /admin/backup/create (server.js) : the forms and the logs, newest first, are
\* written to a new file
CreateBackup ==
    /\ Quiet
    /\ version = "server.js"
    /\ IF ~requireAuth(session) THEN Refused
       ELSE /\ \E end \in AwaitedInTry(forms, logs,
                              [form_id |-> SYSTEM, status |-> "BACKUP_CREATED"], 200,
                              [form_id |-> SYSTEM, status |-> "BACKUP_CREATE_ERROR"]) :
                   /\ logs' = end.logs
                   /\ reply' = end.reply
            /\ backups' = Append(backups, [forms |-> forms, logs |-> Reversed(logs)])
            /\ targets' = {}
            /\ broadcast' = NoBroadcast
            /\ UNCHANGED <<session, forms>>
    /\ Counted
    /\ UNCHANGED nonAdminVars

\* POST /admin/backup/restore/:filename (server.js)
RestoreBackup(k) ==
    /\ Quiet
    /\ version = "server.js"
    /\ k \in 1..Len(backups)
    /\ IF ~requireAuth(session) THEN Refused
       ELSE LET rows == LoadForms(backups[k].forms)
            IN  \E end \in Awaited(rows, backups[k].logs,
                                   [form_id |-> SYSTEM, status |-> "BACKUP_RESTORED"], 200) :
                   /\ forms' = rows
                   /\ logs' = end.logs
                   /\ reply' = end.reply
                   /\ targets' = {}
                   /\ broadcast' = NoBroadcast
                   /\ UNCHANGED <<session, backups>>
    /\ Counted
    /\ UNCHANGED nonAdminVars

\* DELETE /admin/backup/delete/:filename (server.js)
DeleteBackup(k) ==
    /\ Quiet
    /\ version = "server.js"
    /\ k \in 1..Len(backups)
    /\ IF ~requireAuth(session) THEN Refused
       ELSE /\ backups' = Without(backups, k)
            /\ \E end \in AwaitedInTry(forms, logs,
                              [form_id |-> SYSTEM, status |-> "BACKUP_DELETED"], 200,
                              [form_id |-> SYSTEM, status |-> "BACKUP_DELETE_ERROR"]) :
                   /\ logs' = end.logs
                   /\ reply' = end.reply
            /\ targets' = {}
            /\ broadcast' = NoBroadcast
            /\ UNCHANGED <<session, forms>>
    /\ Counted
    /\ UNCHANGED nonAdminVars

\* the texts of the message of a broadcast: none, blank, and a notice
MessageInputs == {<<>>, <<" ">>, <<"m">>}

\* POST /admin/broadcast-maintenance up to its first axios.post : the message is
\* checked and db.all reads the forms
BroadcastStart(message) ==
    /\ Quiet
    /\ IF ~requireAuth(session) THEN Refused
       ELSE IF message = <<>> \/ Len(Trim(message)) = 0
       THEN Answered(400)
       ELSE /\ broadcast' =
                  IF Len(forms) = 0
                  THEN [NoBroadcast EXCEPT !.stage = "done",
                           !.response = <<[results |-> <<>>, successCount |-> 0, totalCount |-> 0]>>]
                  ELSE [NoBroadcast EXCEPT !.stage = "posting", !.rows = forms, !.i = 1]
            /\ reply' = IF Len(forms) = 0 THEN 200 ELSE 0
            /\ targets' = {}
            /\ UNCHANGED <<session, forms, logs, backups>>
    /\ Counted
    /\ UNCHANGED nonAdminVars

\* await axios.post(form.webhook_url, payload) settles for the form in turn
BroadcastPost ==
    /\ broadcast.stage = "posting"
    /\ LET form == broadcast.rows[broadcast.i]
       IN  /\ targets' = targets \cup {form.webhook_url}
           /\ \E accepted \in BOOLEAN :
                 broadcast' =
                    [broadcast EXCEPT
                        !.attempted = Append(@, form.form_id),
                        !.results = Append(@, [formId |-> form.form_id, success |-> accepted]),
                        !.successCount = IF accepted THEN @ + 1 ELSE @,
                        !.stage = IF accepted THEN "logSent" ELSE "logError"]
    /\ UNCHANGED <<nonAdminVars, session, forms, logs, backups, reply, handled>>

\* the stage after the form in turn is done with
NextForm(b) ==
    IF b.i < Len(b.rows) THEN [b EXCEPT !.i = @ + 1, !.stage = "posting"]
    ELSE [b EXCEPT !.stage = "logTotal"]

\* an awaited logRequest of the broadcast settles: MAINTENANCE_SENT inside the try of
\* the form in turn, whose catch adds a result and awaits MAINTENANCE_ERROR ; that one
\* and MAINTENANCE_BROADCAST inside the outer try, whose catch awaits MAINTENANCE_ERROR
\* and answers 500 ; and that last one with nothing around it
BroadcastLog ==
    /\ broadcast.stage \in {"logSent", "logError", "logTotal", "logOuter"}
    /\ LET form == broadcast.rows[broadcast.i]
           entry == CASE broadcast.stage = "logSent" ->
                             [form_id |-> form.form_id, status |-> "MAINTENANCE_SENT"]
                      [] broadcast.stage = "logError" ->
                             [form_id |-> form.form_id, status |-> "MAINTENANCE_ERROR"]
                      [] broadcast.stage = "logTotal" ->
                             [form_id |-> SYSTEM, status |-> "MAINTENANCE_BROADCAST"]
                      [] broadcast.stage = "logOuter" ->
                             [form_id |-> SYSTEM, status |-> "MAINTENANCE_ERROR"]
       IN  \E after \in MayLog(forms, logs, entry) :
              /\ logs' = after
              /\ IF after # logs
                 THEN CASE broadcast.stage \in {"logSent", "logError"} ->
                             /\ broadcast' = NextForm(broadcast)
                             /\ reply' = reply
                        [] broadcast.stage = "logTotal" ->
                             /\ broadcast' =
                                   [broadcast EXCEPT !.stage = "done",
                                       !.response = <<[results |-> broadcast.results,
                                                       successCount |-> broadcast.successCount,
                                                       totalCount |-> Len(broadcast.rows)]>>]
                             /\ reply' = 200
                        [] broadcast.stage = "logOuter" ->
                             /\ broadcast' = [broadcast EXCEPT !.stage = "done"]
                             /\ reply' = 500
                 ELSE CASE broadcast.stage = "logSent" ->
                             /\ broadcast' =
                                   [broadcast EXCEPT
                                       !.results = Append(@, [formId |-> form.form_id,
                                                              success |-> FALSE]),
                                       !.stage = "logError"]
                             /\ reply' = reply
                        [] broadcast.stage \in {"logError", "logTotal"} ->
                             /\ broadcast' = [broadcast EXCEPT !.stage = "logOuter"]
                             /\ reply' = reply
                        [] broadcast.stage = "logOuter" ->
                             /\ broadcast' = [broadcast EXCEPT !.stage = "done"]
                             /\ reply' = 0
    /\ UNCHANGED <<nonAdminVars, session, forms, backups, targets, handled>>

\* the names and passwords of the login attempts
LoginNames == {AdminName, <<"x">>}

LoginPasswords == {AdminPassword, <<"n", "o">>}

\* a request to a route behind requireAuth
AdminRequest ==
    \/ GetForms
    \/ \E formId \in FormIdInputs, formName \in FormNameInputs, k \in 1..Len(WebhookUrlInputs) :
          RegisterForm(formId, formName, WebhookUrlInputs[k])
    \/ \E formId \in {F1, F2}, config \in ConfigInputs : PutConfig(formId, config)
    \/ \E formId \in {F1, F2} : DeleteForm(formId)
    \/ ClearLogs
    \/ \E formId \in {F1, F2} : TestWebhook(formId)
    \/ \E k \in 1..Len(ImportFiles) : ImportBackup(k)
    \/ CreateBackup
    \/ \E k \in 1..Len(backups) : RestoreBackup(k)
    \/ \E k \in 1..Len(backups) : DeleteBackup(k)
    \/ \E message \in MessageInputs : BroadcastStart(message)

NextAdmin ==
    \/ \E username \in LoginNames, password \in LoginPasswords :
          Login(username, password)
    \/ Logout
    \/ AdminRequest
    \/ \E formId \in {F1, F2} : Submit(formId)
    \/ BroadcastPost
    \/ BroadcastLog

AdminSpec == InitAdmin /\ [][NextAdmin]_vars

\* C26: every HTTP POST the server sends to a webhook (the relay of a form, the test
\* message, the maintenance broadcast) goes to a URL that starts with
\* https://discord.com/api/webhooks/, in every state of the forms the administrator's
\* routes can reach, the import and the restore of a backup included.
C26_PostsOnlyToDiscord ==
    \A url \in targets : isValidWebhookUrl(url)

\* C28: a session becomes authenticated only by a login whose password matches the
\* stored hash, and a logout ends it; a request to a route behind requireAuth made with
\* a session that is not authenticated is answered 401 and changes nothing in the
\* forms, the logs or the backup files.
C28_OnlyLoginOpensTheRoutes ==
    [][/\ (~session.authenticated /\ session'.authenticated) =>
              \E username \in LoginNames, password \in LoginPasswords :
                 /\ Login(username, password)
                 /\ \E i \in 1..Len(users) :
                       /\ users[i].username = username
                       /\ bcryptCompare(password, users[i].password_hash)
       /\ Logout => ~session'.authenticated
       /\ (~session.authenticated /\ AdminRequest) =>
              /\ reply' = 401
              /\ UNCHANGED <<forms, logs, backups>>]_vars

\* after a login, a registration and a logout a request behind requireAuth was refused
C28_Witness ==
    /\ ~session.authenticated
    /\ reply = 401
    /\ forms # <<>>
    /\ logs # <<>>
    /\ handled > 0

\* no two rows of forms have the same form_id
UniqueIds(rows) ==
    \A i, j \in 1..Len(rows) : rows[i].form_id = rows[j].form_id => i = j

\* a text that starts with the prefix of Discord's webhooks
IsWebhookUrlValue(value) ==
    /\ value.t = "str"
    /\ isValidWebhookUrl(value.v)

\* C29: there is at most one form for a form_id after any sequence of registrations,
\* updates and deletions; the registration of a form_id already registered is answered
\* 400 and leaves the forms as they are, and a registration without formId, formName or
\* a valid Discord webhook URL is answered 400 and adds no form.
C29_RegistrationIsCheckedAndUnique ==
    [][/\ UniqueIds(forms')
       /\ \A formId \in FormIdInputs, formName \in FormNameInputs,
             k \in 1..Len(WebhookUrlInputs) :
             (requireAuth(session) /\ RegisterForm(formId, formName, WebhookUrlInputs[k])) =>
                 /\ SelectForm(forms, formId) # <<>> =>
                       (reply' = 400 /\ forms' = forms)
                 /\ (formId = <<>> \/ formName = <<>>
                        \/ ~IsWebhookUrlValue(WebhookUrlInputs[k])) =>
                       (reply' = 400 /\ forms' = forms)]_vars

\* C30: a maintenance broadcast with a message over n registered forms tries every form
\* in turn, a failed delivery not stopping the following ones; the results of its
\* response have exactly one entry for each form, totalCount is n and successCount is
\* the number of entries with success = true.
C30_BroadcastReachesEveryForm ==
    (broadcast.stage = "done" /\ broadcast.rows # <<>>) =>
        /\ broadcast.attempted = [k \in 1..Len(broadcast.rows) |-> broadcast.rows[k].form_id]
        /\ Len(broadcast.response) = 1
        /\ LET response == broadcast.response[1]
           IN  /\ Len(response.results) = Len(broadcast.rows)
               /\ \A k \in 1..Len(broadcast.rows) :
                     response.results[k].formId = broadcast.rows[k].form_id
               /\ response.totalCount = Len(broadcast.rows)
               /\ response.successCount =
                     Cardinality({k \in 1..Len(response.results) : response.results[k].success})

====
